---- MODULE Spec2Model ----
(***************************************************************************)
(* A model of tinymce.html.DomParser: the schema-driven pipeline that      *)
(* turns sanitized markup into an AstNode tree (import, two-pass           *)
(* normalizer, validation walk, invalid-node repair, root-block wrapping,  *)
(* filter dispatch) and the per-instance filter registry.                  *)
(*                                                                         *)
(* The tree is a sequence of node records indexed by node id; the links    *)
(* parent/prev/next/firstChild/lastChild are ids, NULL when absent.  Text  *)
(* values are sequences of one-character strings.                          *)
(***************************************************************************)
EXTENDS Integers, Sequences, FiniteSets, TLC

\* ------------------------------------------------------------------ bounds
\* Most nodes (besides the synthetic root) of a sanitized input document.
MaxNodes == 3
\* Longest text value of an input text node.
MaxTextLen == 2
\* Most filter registrations (addNodeFilter + addAttributeFilter calls).
MaxRegs == 3
\* Most parse calls on one parser instance.
MaxParses == 2

\* --------------------------------------------------------------- constants
NULL == 0
Root == 1
ELEMENT == 1
TEXT == 3
FRAGMENT == 11

NBSP == "nbsp"
WhiteSpaceChars == {" ", "\t", "\r", "\n"}

\* ----------------------------------------------------------------- schema
\* The schema is a read-only capability.  This instance is a small custom
\* schema: p, div, pre are block elements; a, b, strong are inline; br is a
\* void (non-empty) element; pre preserves whitespace; b is output as strong;
\* span and abbr are inline and img is void, and these three carry attribute
\* rules; any other name (foo) has no rule and is not tracked by
\* schema.children.
SchemaElements ==
  [ body |-> [removeEmpty |-> FALSE, paddEmpty |-> FALSE, outputName |-> ""],
    p    |-> [removeEmpty |-> FALSE, paddEmpty |-> TRUE,  outputName |-> ""],
    div  |-> [removeEmpty |-> TRUE,  paddEmpty |-> TRUE,  outputName |-> ""],
    pre  |-> [removeEmpty |-> FALSE, paddEmpty |-> TRUE,  outputName |-> ""],
    a    |-> [removeEmpty |-> TRUE,  paddEmpty |-> FALSE, outputName |-> ""],
    br   |-> [removeEmpty |-> FALSE, paddEmpty |-> FALSE, outputName |-> ""],
    strong |-> [removeEmpty |-> TRUE, paddEmpty |-> FALSE, outputName |-> ""],
    b    |-> [removeEmpty |-> TRUE,  paddEmpty |-> FALSE, outputName |-> "strong"],
    span |-> [removeEmpty |-> TRUE,  paddEmpty |-> FALSE, outputName |-> ""],
    abbr |-> [removeEmpty |-> TRUE,  paddEmpty |-> FALSE, outputName |-> ""],
    img  |-> [removeEmpty |-> FALSE, paddEmpty |-> FALSE, outputName |-> ""] ]

\* The placeholder a forced or default attribute value may be.
UidPlaceholder == "{$uid}"

\* The attribute rules of a SchemaElement; an empty attributesRequired stands
\* for a rule without that property.
NoAttributeRules ==
  [attributesForced |-> <<>>, attributesDefault |-> <<>>, attributesRequired |-> <<>>,
   removeEmptyAttrs |-> FALSE]

SchemaAttributeRules ==
  [ img  |-> [attributesForced |-> <<[name |-> "class", value |-> "f"],
                                    [name |-> "id", value |-> UidPlaceholder]>>,
              attributesDefault |-> <<[name |-> "alt", value |-> "d"],
                                     [name |-> "title", value |-> UidPlaceholder]>>,
              attributesRequired |-> <<>>, removeEmptyAttrs |-> FALSE],
    span |-> [attributesForced |-> <<>>, attributesDefault |-> <<>>,
              attributesRequired |-> <<>>, removeEmptyAttrs |-> TRUE],
    abbr |-> [attributesForced |-> <<>>,
              attributesDefault |-> <<[name |-> "lang", value |-> "en"]>>,
              attributesRequired |-> <<"title", "id">>, removeEmptyAttrs |-> FALSE] ]

AttributeRulesOf(name) ==
  IF name \in DOMAIN SchemaAttributeRules THEN SchemaAttributeRules[name]
  ELSE NoAttributeRules

HasElementRule(name) == name \in DOMAIN SchemaElements

getElementRule(name) == SchemaElements[name]

SchemaBlockElements == {"p", "div", "pre"}

WhiteSpaceElements == {"pre"}

NonEmptyElements == {"br", "img"}

FlowContent == {"p", "div", "pre", "a", "b", "strong", "br", "span", "abbr", "img"}

PhrasingContent == {"a", "b", "strong", "br", "span", "abbr", "img"}

\* schema.children: the names the schema tracks, each with its valid children.
SchemaChildren ==
  [ body |-> FlowContent,
    div  |-> FlowContent,
    a    |-> FlowContent,
    b    |-> PhrasingContent,
    strong |-> PhrasingContent,
    p    |-> PhrasingContent,
    pre  |-> PhrasingContent,
    span |-> PhrasingContent,
    abbr |-> PhrasingContent,
    img  |-> {},
    br   |-> {} ]

isValidChild(name, child) ==
  name \in DOMAIN SchemaChildren /\ child \in SchemaChildren[name]

\* --------------------------------------------------------------- AstNode
NewNode(name, type) ==
  [ type |-> type, name |-> name, value |-> <<>>, attrs |-> {},
    parent |-> NULL, prev |-> NULL, next |-> NULL,
    firstChild |-> NULL, lastChild |-> NULL ]

\* node.attr(name): the value, or "" when the attribute is absent.
Attr(t, node, name) ==
  IF \E p \in t[node].attrs : p[1] = name
  THEN (CHOOSE p \in t[node].attrs : p[1] = name)[2]
  ELSE ""

HasAttr(t, node, name) == \E p \in t[node].attrs : p[1] = name

\* AstNode.remove(), first half: the parent's firstChild or the previous
\* sibling's next skips the node.
UnlinkFirst(t, self, parent, next, prev) ==
  IF t[parent].firstChild = self
  THEN [t EXCEPT ![parent].firstChild = next,
                 ![IF next # NULL THEN next ELSE self].prev =
                    IF next # NULL THEN NULL ELSE @]
  ELSE [t EXCEPT ![prev].next = next]

\* For contrast: a second half that forgets the next sibling's prev.
UnlinkLastOnly(t, self, parent, next, prev) ==
  IF t[parent].lastChild = self
  THEN [t EXCEPT ![parent].lastChild = prev,
                 ![IF prev # NULL THEN prev ELSE self].next =
                    IF prev # NULL THEN NULL ELSE @]
  ELSE t

\* AstNode.remove(), second half: the parent's lastChild or the next sibling's
\* prev skips the node.
UnlinkLast(t, self, parent, next, prev) ==
  IF t[parent].lastChild = self
  THEN [t EXCEPT ![parent].lastChild = prev,
                 ![IF prev # NULL THEN prev ELSE self].next =
                    IF prev # NULL THEN NULL ELSE @]
  ELSE [t EXCEPT ![next].prev = prev]

\* AstNode.remove(): detach the node and relink its siblings.
Remove(t, self) ==
  IF t[self].parent = NULL THEN t
  ELSE [UnlinkLast(UnlinkFirst(t, self, t[self].parent, t[self].next, t[self].prev),
                   self, t[self].parent, t[self].next, t[self].prev)
          EXCEPT ![self].parent = NULL, ![self].next = NULL, ![self].prev = NULL]

\* AstNode.insert, the linking of a detached node before or after refNode.
InsertAt(t, parent, node, refNode, before) ==
  IF before
  THEN IF refNode = t[parent].firstChild
       THEN [t EXCEPT ![parent].firstChild = node,
                      ![node].prev = t[refNode].prev, ![node].next = refNode,
                      ![refNode].prev = node, ![node].parent = parent]
       ELSE [t EXCEPT ![t[refNode].prev].next = node,
                      ![node].prev = t[refNode].prev, ![node].next = refNode,
                      ![refNode].prev = node, ![node].parent = parent]
  ELSE IF refNode = t[parent].lastChild
       THEN [t EXCEPT ![parent].lastChild = node,
                      ![node].next = t[refNode].next, ![node].prev = refNode,
                      ![refNode].next = node, ![node].parent = parent]
       ELSE [t EXCEPT ![t[refNode].next].prev = node,
                      ![node].next = t[refNode].next, ![node].prev = refNode,
                      ![refNode].next = node, ![node].parent = parent]

\* AstNode.insert once the node is detached: the parent is refNode's parent,
\* or self when refNode has none.
InsertDetached(t, self, node, refNode, before) ==
  InsertAt(t, IF t[refNode].parent # NULL THEN t[refNode].parent ELSE self,
           node, refNode, before)

\* AstNode.insert(node, refNode, before)
Insert(t, self, node, refNode, before) ==
  InsertDetached(IF t[node].parent # NULL THEN Remove(t, node) ELSE t,
                 self, node, refNode, before)

\* AstNode.append once the node is detached.
AppendDetached(t, self, node) ==
  IF t[self].lastChild # NULL
  THEN [t EXCEPT ![t[self].lastChild].next = node, ![node].prev = t[self].lastChild,
                 ![self].lastChild = node, ![node].parent = self]
  ELSE [t EXCEPT ![self].lastChild = node, ![self].firstChild = node,
                 ![node].parent = self]

\* AstNode.append(node): node becomes the last child of self.
AppendChild(t, self, node) ==
  AppendDetached(IF t[node].parent # NULL THEN Remove(t, node) ELSE t, self, node)

\* The loop of AstNode.unwrap(): move each child before self, in order.
RECURSIVE UnwrapLoop(_, _, _)
UnwrapLoop(t, self, node) ==
  IF node = NULL THEN t
  ELSE UnwrapLoop(Insert(t, self, node, self, TRUE), self, t[node].next)

\* AstNode.unwrap(): replace self in place with its children.
Unwrap(t, self) == Remove(UnwrapLoop(t, self, t[self].firstChild), self)

\* walk(node, root): the next node in document order, staying below root
\* (root = NULL: no limit).
RECURSIVE WalkUp(_, _, _)
WalkUp(t, parent, root) ==
  IF parent = NULL \/ parent = root THEN NULL
  ELSE IF t[parent].next # NULL THEN t[parent].next
  ELSE WalkUp(t, t[parent].parent, root)

WalkWithin(t, node, root) ==
  IF t[node].firstChild # NULL THEN t[node].firstChild
  ELSE IF node # root
       THEN IF t[node].next # NULL THEN t[node].next
            ELSE WalkUp(t, t[node].parent, root)
       ELSE NULL

\* AstNode.walk()
Walk(t, node) == WalkWithin(t, node, NULL)

\* The nodes below self in document order (the list AstNode.empty() collects).
RECURSIVE DescendantsFrom(_, _, _)
DescendantsFrom(t, self, node) ==
  IF node = NULL THEN <<>>
  ELSE <<node>> \o DescendantsFrom(t, self, WalkWithin(t, node, self))

Descendants(t, self) ==
  IF t[self].firstChild = NULL THEN <<>>
  ELSE DescendantsFrom(t, self, t[self].firstChild)

SeqRange(seq) == {seq[i] : i \in 1..Len(seq)}

\* AstNode.empty(), given the descendants ds: clear their links and self's
\* child list.
ClearLinks(t, self, ds) ==
  [ n \in DOMAIN t |->
      IF n \in ds
      THEN [t[n] EXCEPT !.parent = NULL, !.firstChild = NULL, !.lastChild = NULL,
                        !.next = NULL, !.prev = NULL]
      ELSE IF n = self
      THEN [t[n] EXCEPT !.firstChild = NULL, !.lastChild = NULL]
      ELSE t[n] ]

\* AstNode.empty()
EmptyNode(t, self) == ClearLinks(t, self, SeqRange(Descendants(t, self)))

\* ------------------------------------------------------------ text values
IsWhiteSpace(c) == c \in WhiteSpaceChars

RECURSIVE DropLeadingWhiteSpace(_)
DropLeadingWhiteSpace(text) ==
  IF text # <<>> /\ IsWhiteSpace(Head(text))
  THEN DropLeadingWhiteSpace(Tail(text))
  ELSE text

\* text.replace(/[ \t\r\n]+/g, ' ')
RECURSIVE ReplaceAllWhiteSpace(_)
ReplaceAllWhiteSpace(text) ==
  IF text = <<>> THEN <<>>
  ELSE IF IsWhiteSpace(Head(text))
       THEN <<" ">> \o ReplaceAllWhiteSpace(DropLeadingWhiteSpace(Tail(text)))
       ELSE <<Head(text)>> \o ReplaceAllWhiteSpace(Tail(text))

\* text.replace(/^[ \t\r\n]+/, '')
ReplaceStartWhiteSpace(text) == DropLeadingWhiteSpace(text)

\* text.replace(/[ \t\r\n]+$/, '')
RECURSIVE ReplaceEndWhiteSpace(_)
ReplaceEndWhiteSpace(text) ==
  IF text # <<>> /\ IsWhiteSpace(text[Len(text)])
  THEN ReplaceEndWhiteSpace(SubSeq(text, 1, Len(text) - 1))
  ELSE text

\* /^[ \t\r\n]*$/.test(text)
IsWhiteSpaceText(text) == \A i \in 1..Len(text) : IsWhiteSpace(text[i])

\* ------------------------------------------------------------ ParserUtils
\* blockElements: the built-in names extended with the schema's block elements.
BlockElements ==
  {"script", "style", "head", "html", "body", "title", "meta", "param"}
    \cup SchemaBlockElements

isLineBreakNode(t, node) ==
  node # NULL /\ (t[node].name \in BlockElements \/ t[node].name = "br")

hasOnlyChild(t, node, name) ==
  /\ t[node].firstChild # NULL
  /\ t[node].firstChild = t[node].lastChild
  /\ t[t[node].firstChild].name = name

isPaddedWithNbsp(t, node) ==
  hasOnlyChild(t, node, "#text") /\ t[t[node].firstChild].value = <<NBSP>>

\* Whether a descendant counts as content for isEmpty.
IsContent(t, d) ==
  \/ /\ t[d].type = ELEMENT
     /\ ~HasAttr(t, d, "data-mce-bogus")
     /\ t[d].name \in NonEmptyElements
  \/ /\ t[d].type = TEXT
     /\ ~IsWhiteSpaceText(t[d].value)
  \/ /\ t[d].type = TEXT
     /\ t[d].parent # NULL
     /\ t[t[d].parent].name \in WhiteSpaceElements
     /\ IsWhiteSpaceText(t[d].value)

\* isEmpty(schema, nonEmptyElements, whitespaceElements, node)
isEmpty(t, node) ==
  \A d \in SeqRange(Descendants(t, node)) : ~IsContent(t, d)

\* paddEmptyNode once the node is emptied: its one child is a new padding
\* node, a br element or an nbsp text node.
PaddEmptied(t, brPreferred, node) ==
  IF brPreferred /\ t[node].name \in BlockElements
  THEN AppendChild(Append(t, NewNode("br", ELEMENT)), node, Len(t) + 1)
  ELSE AppendChild(Append(t, [NewNode("#text", TEXT) EXCEPT !.value = <<NBSP>>]),
                   node, Len(t) + 1)

\* paddEmptyNode(settings, args, blockElements, node)
paddEmptyNode(t, brPreferred, node) ==
  PaddEmptied(EmptyNode(t, node), brPreferred, node)

\* ------------------------------------------------------------- simplifyDom
RECURSIVE hasWhitespaceParent(_, _)
hasWhitespaceParent(t, node) ==
  IF t[node].name \in WhiteSpaceElements THEN TRUE
  ELSE IF t[node].parent # NULL THEN hasWhitespaceParent(t, t[node].parent)
  ELSE FALSE

isAtEdgeOfBlock(t, node, start, isRootContent) ==
  IF (IF start THEN t[node].prev ELSE t[node].next) # NULL THEN FALSE
  ELSE /\ t[t[node].parent].name \in BlockElements
       /\ (t[node].parent # Root \/ isRootContent)

\* if (text.length === 0) node.remove(); else node.value = text;
StoreText(t, node, text) ==
  IF Len(text) = 0 THEN Remove(t, node)
  ELSE [t EXCEPT ![node].value = text]

\* Pass 1 on a text node: collapse, strip leading whitespace, detach if empty.
preprocessText(t, node, isRootContent) ==
  IF hasWhitespaceParent(t, node) THEN t
  ELSE StoreText(t, node,
         IF isLineBreakNode(t, t[node].prev)
            \/ isAtEdgeOfBlock(t, node, TRUE, isRootContent)
         THEN ReplaceStartWhiteSpace(ReplaceAllWhiteSpace(t[node].value))
         ELSE ReplaceAllWhiteSpace(t[node].value))

\* Pass 2 on a text node: strip trailing whitespace, detach if empty.
postprocessText(t, node, isRootContent) ==
  IF hasWhitespaceParent(t, node) THEN t
  ELSE StoreText(t, node,
         IF (t[node].next # NULL /\ t[t[node].next].name \in BlockElements)
            \/ isAtEdgeOfBlock(t, node, FALSE, isRootContent)
         THEN ReplaceEndWhiteSpace(t[node].value)
         ELSE t[node].value)

\* Pass 1 on an element: the data-mce-bogus markers.
preprocessElement(t, node) ==
  IF Attr(t, node, "data-mce-bogus") = "all" THEN Remove(t, node)
  ELSE IF Attr(t, node, "data-mce-bogus") = "1" /\ Attr(t, node, "data-mce-type") = ""
       THEN Unwrap(t, node)
       ELSE t

\* For contrast: a pass 2 that tests paddEmpty before removeEmpty.
postprocessElementPadFirst(t, node, brPreferred) ==
  IF ~HasElementRule(t[node].name) THEN t
  ELSE IF getElementRule(t[node].name).paddEmpty
          /\ (isEmpty(t, node) \/ isPaddedWithNbsp(t, node))
       THEN paddEmptyNode(t, brPreferred, node)
       ELSE IF getElementRule(t[node].name).removeEmpty /\ isEmpty(t, node)
       THEN IF t[node].name \in BlockElements THEN Remove(t, node)
            ELSE Unwrap(t, node)
       ELSE t

\* Pass 2 on an element: remove, unwrap or pad it when empty.
postprocessElement(t, node, brPreferred) ==
  IF ~HasElementRule(t[node].name) THEN t
  ELSE IF getElementRule(t[node].name).removeEmpty /\ isEmpty(t, node)
       THEN IF t[node].name \in BlockElements THEN Remove(t, node)
            ELSE Unwrap(t, node)
       ELSE IF getElementRule(t[node].name).paddEmpty
               /\ (isEmpty(t, node) \/ isPaddedWithNbsp(t, node))
       THEN paddEmptyNode(t, brPreferred, node)
       ELSE t

\* The preprocess method the forward walk calls on a node.
PreprocessNode(t, node, isRootContent) ==
  IF t[node].type = ELEMENT THEN preprocessElement(t, node)
  ELSE IF t[node].type = TEXT THEN preprocessText(t, node, isRootContent)
  ELSE t

\* The forward walk of simplifyDom: w is [tree, nodes, processed].  A node that
\* its preprocess method detached is not kept, and the walk resumes from the
\* node visited before it.
RECURSIVE ForwardWalk(_, _, _, _)
RECURSIVE ForwardResume(_, _, _, _, _)
\* For contrast: a forward walk that keeps every node it has preprocessed.
ForwardResumeKeepAll(w, t1, node, lastNode, isRootContent) ==
  ForwardWalk([w EXCEPT !.tree = t1, !.processed = Append(@, node),
                        !.nodes = Append(@, node)],
              Walk(t1, IF t1[node].parent = NULL /\ node # Root THEN lastNode ELSE node),
              IF t1[node].parent = NULL /\ node # Root THEN lastNode ELSE node,
              isRootContent)

ForwardResume(w, t1, node, lastNode, isRootContent) ==
  IF t1[node].parent = NULL /\ node # Root
  THEN ForwardWalk([w EXCEPT !.tree = t1, !.processed = Append(@, node)],
                   Walk(t1, lastNode), lastNode, isRootContent)
  ELSE ForwardWalk([w EXCEPT !.tree = t1, !.processed = Append(@, node),
                             !.nodes = Append(@, node)],
                   Walk(t1, node), node, isRootContent)

ForwardWalk(w, node, lastNode, isRootContent) ==
  IF node = NULL THEN w
  ELSE ForwardResume(w, PreprocessNode(w.tree, node, isRootContent),
                     node, lastNode, isRootContent)

\* One step of the backward walk of simplifyDom (Arr.eachr over nodes).
PostprocessNode(t, node, isRootContent, brPreferred) ==
  IF t[node].type = ELEMENT THEN postprocessElement(t, node, brPreferred)
  ELSE IF t[node].type = TEXT THEN postprocessText(t, node, isRootContent)
  ELSE t

\* -------------------------------------------------------------- filterNode
\* Position of name among the entries of list, 0 when absent.
IndexOfName(list, name) ==
  IF \E i \in 1..Len(list) : list[i].name = name
  THEN CHOOSE i \in 1..Len(list) : list[i].name = name
  ELSE 0

\* matched[name].push(node), creating the entry when the name is new (entries
\* keep their creation order, as the keys of the matched object do).
PushMatch(matched, name, node) ==
  IF IndexOfName(matched, name) # 0
  THEN [matched EXCEPT ![IndexOfName(matched, name)].nodes = Append(@, node)]
  ELSE Append(matched, [name |-> name, nodes |-> <<node>>])

\* For contrast: an attribute-filter loop that runs from the first entry up.
RECURSIVE MatchAttributesForward(_, _, _, _, _)
MatchAttributesForward(matchedAttributes, t, node, af, i) ==
  IF i = 0 THEN matchedAttributes
  ELSE MatchAttributesForward(
         IF HasAttr(t, node, af[Len(af) + 1 - i].name)
         THEN PushMatch(matchedAttributes, af[Len(af) + 1 - i].name, node)
         ELSE matchedAttributes,
         t, node, af, i - 1)

\* The attribute-filter loop of filterNode: i counts down from the last entry.
RECURSIVE MatchAttributes(_, _, _, _, _)
MatchAttributes(matchedAttributes, t, node, af, i) ==
  IF i = 0 THEN matchedAttributes
  ELSE MatchAttributes(
         IF HasAttr(t, node, af[i].name)
         THEN PushMatch(matchedAttributes, af[i].name, node)
         ELSE matchedAttributes,
         t, node, af, i - 1)

\* filterNode(node, nodeFilters, attributeFilters, state): the new state.
filterNode(t, node, nf, af, st) ==
  [st EXCEPT
     !.matchedNodes = IF IndexOfName(nf, t[node].name) # 0
                      THEN PushMatch(@, t[node].name, node) ELSE @,
     !.matchedAttributes = IF t[node].type = ELEMENT
                           THEN MatchAttributes(@, t, node, af, Len(af)) ELSE @]

\* ------------------------------------------------------------------ walker
EmptyWalkResult ==
  [invalidChildren |-> <<>>, matchedNodes |-> <<>>, matchedAttributes |-> <<>>]

\* The walker's child-validity check on a node whose parent is parent.
RecordInvalidChild(t, node, st) ==
  IF /\ t[node].parent # NULL
     /\ t[t[node].parent].name \in DOMAIN SchemaChildren
     /\ t[node].name \in DOMAIN SchemaChildren
     /\ t[node].name \notin SchemaChildren[t[t[node].parent].name]
  THEN [st EXCEPT !.invalidChildren = Append(@, node)]
  ELSE st

\* For contrast: a walker that looks up the rule whether it validates or not.
OutputNameOfRule(t, node, validate) ==
  IF t[node].type = ELEMENT /\ HasElementRule(t[node].name)
     /\ getElementRule(t[node].name).outputName # ""
  THEN getElementRule(t[node].name).outputName
  ELSE t[node].name

\* The name the walker gives an element: its rule's outputName, if any.
OutputName(t, node, validate) ==
  IF t[node].type = ELEMENT /\ validate
     /\ getElementRule(t[node].name).outputName # ""
  THEN getElementRule(t[node].name).outputName
  ELSE t[node].name

\* For contrast: a walker that deletes an element without a rule, children
\* and all.
DeleteUnknown(t, node) == Remove(t, node)

\* node.unwrap() on an element the schema has no rule for.
UnwrapUnknown(t, node) == Unwrap(t, node)

\* The walker's loop body for a node it keeps, t being the tree with the node
\* renamed: match the filters, check the node against its parent.
WalkerKeep(w, t, node, nf, af) ==
  [w EXCEPT !.tree = t,
            !.state = RecordInvalidChild(t, node, filterNode(t, node, nf, af, @)),
            !.visited = Append(@, node)]

\* while ((previous = node), (node = node.walk())) { ... }: w is [tree, state,
\* visited, unwrapped]; an element without a rule is unwrapped and the walk
\* resumes from the node before it.
RECURSIVE WalkerLoop(_, _, _, _, _)
RECURSIVE WalkerVisit(_, _, _, _, _, _)
\* For contrast: a walk that goes on from the element it has just unwrapped.
WalkerVisitNoReset(w, previous, node, validate, nf, af) ==
  IF node = NULL THEN w
  ELSE IF w.tree[node].type = ELEMENT /\ validate /\ ~HasElementRule(w.tree[node].name)
       THEN WalkerLoop([w EXCEPT !.tree = UnwrapUnknown(@, node),
                                 !.unwrapped = Append(@, node)],
                       node, validate, nf, af)
       ELSE WalkerLoop(WalkerKeep(w, [w.tree EXCEPT ![node].name =
                                                      OutputName(w.tree, node, validate)],
                                  node, nf, af),
                       node, validate, nf, af)

WalkerVisit(w, previous, node, validate, nf, af) ==
  IF node = NULL THEN w
  ELSE IF w.tree[node].type = ELEMENT /\ validate /\ ~HasElementRule(w.tree[node].name)
       THEN WalkerLoop([w EXCEPT !.tree = UnwrapUnknown(@, node),
                                 !.unwrapped = Append(@, node)],
                       previous, validate, nf, af)
       ELSE WalkerLoop(WalkerKeep(w, [w.tree EXCEPT ![node].name =
                                                      OutputName(w.tree, node, validate)],
                                  node, nf, af),
                       node, validate, nf, af)

WalkerLoop(w, node, validate, nf, af) ==
  WalkerVisit(w, node, Walk(w.tree, node), validate, nf, af)

walker(t, validate, nf, af) ==
  WalkerLoop([tree |-> t, state |-> EmptyWalkResult, visited |-> <<>>, unwrapped |-> <<>>],
             Root, validate, nf, af)

\* -------------------------------------------------------- cleanInvalidNodes
Reverse(seq) == [i \in 1..Len(seq) |-> seq[Len(seq) + 1 - i]]

NonSplittableElements == {"tr", "td", "th", "tbody", "thead", "tfoot", "table"}

\* The ancestors, from parent up, that the name is not a valid child of.
RECURSIVE InvalidParents(_, _, _)
InvalidParents(t, name, parent) ==
  IF parent # NULL /\ ~isValidChild(t[parent].name, name)
     /\ t[parent].name \notin NonSplittableElements
  THEN <<parent>> \o InvalidParents(t, name, t[parent].parent)
  ELSE <<>>

\* For contrast: an onCreate that does not match the new node.
CreatedUnmatched(t, st, nf, af) == [tree |-> t, state |-> st]

\* onCreate(newNode) for the node just added to the tree of r.
Created(t, st, nf, af) ==
  [tree |-> t, state |-> filterNode(t, Len(t), nf, af, st)]

\* AstNode.clone(): a detached copy of the node without its children, reported
\* through onCreate; r is [tree, state] and the clone is the last node.
CloneNode(r, node, nf, af) ==
  Created(Append(r.tree, [NewNode(r.tree[node].name, r.tree[node].type)
                            EXCEPT !.attrs = r.tree[node].attrs]),
          r.state, nf, af)

\* Move the children from childNode up to stop to the end of to.
RECURSIVE MoveChildrenBefore(_, _, _, _)
MoveChildrenBefore(t, childNode, stop, to) ==
  IF childNode = NULL \/ childNode = stop THEN t
  ELSE MoveChildrenBefore(AppendChild(t, to, childNode), t[childNode].next, stop, to)

\* The cloning loop over parents[i], i < Len(parents): the left-hand side of the
\* invalid node moves into currentNode or into a clone of parents[i] under it.
RECURSIVE SplitLoop(_, _, _, _, _, _)
RECURSIVE SplitInto(_, _, _, _, _, _)
SplitInto(r, parents, i, tempNode, nf, af) ==
  SplitLoop([r EXCEPT !.tree = MoveChildrenBefore(@, r.tree[parents[i]].firstChild,
                                                  parents[i + 1], tempNode)],
            parents, i + 1, tempNode, nf, af)

\* The clone made for parents[i] is the last node of r: append it to currentNode.
SplitCloned(r, parents, i, currentNode, nf, af) ==
  SplitInto([r EXCEPT !.tree = AppendChild(@, currentNode, Len(r.tree))],
            parents, i, Len(r.tree), nf, af)

SplitLoop(r, parents, i, currentNode, nf, af) ==
  IF i >= Len(parents) THEN r
  ELSE IF isValidChild(r.tree[currentNode].name, r.tree[parents[i]].name) /\ i > 1
       THEN SplitCloned(CloneNode(r, parents[i], nf, af), parents, i, currentNode, nf, af)
       ELSE SplitInto(r, parents, i, currentNode, nf, af)

\* AstNode.wrap(wrapper)
WrapNode(t, node, wrapper) ==
  AppendChild(Insert(t, t[node].parent, wrapper, node, FALSE), wrapper, node)

\* The old parent goes when the split left it empty or with only a br.
DropEmptiedParent(t, oldParent) ==
  IF isEmpty(t, oldParent) \/ hasOnlyChild(t, oldParent, "br")
  THEN Remove(EmptyNode(t, oldParent), oldParent)
  ELSE t

\* After the split: newParent (holding the left-hand side) and the node go
\* before parents[1] under parent.
PlaceSplit(t, parent, node, newParent, oldParent) ==
  DropEmptiedParent(
    IF ~isEmpty(t, newParent)
    THEN Insert(Insert(t, parent, newParent, oldParent, TRUE), parent, node, newParent, FALSE)
    ELSE Insert(t, parent, node, oldParent, TRUE),
    oldParent)

\* Move the node out to parent, a valid parent above the chain of parents.
PlaceSplitOf(r, parent, node, newParent, oldParent) ==
  [r EXCEPT !.tree = PlaceSplit(@, parent, node, newParent, oldParent)]

SplitParents(r, newParent, parents, parent, node, nf, af) ==
  PlaceSplitOf(SplitLoop(r, parents, 1, newParent, nf, af),
               parent, node, newParent, parents[1])

\* The repair of one attached invalid node, given the chain of the node and
\* its invalid ancestors and the ancestor above them; r is [tree, state].
RepairNode(r, node, chain, parent, nf, af) ==
  IF parent # NULL /\ Len(chain) > 1
  THEN IF isValidChild(r.tree[parent].name, r.tree[node].name)
       THEN SplitParents(CloneNode(r, chain[Len(chain)], nf, af), Len(r.tree) + 1,
                         Reverse(chain), parent, node, nf, af)
       ELSE [r EXCEPT !.tree = Unwrap(@, node)]
  ELSE IF isValidChild(r.tree[r.tree[node].parent].name, "div")
          /\ isValidChild("div", r.tree[node].name)
       THEN [Created(Append(r.tree, NewNode("div", ELEMENT)), r.state, nf, af)
               EXCEPT !.tree = WrapNode(@, node, Len(r.tree) + 1)]
       ELSE [r EXCEPT !.tree = Unwrap(@, node)]

\* The ancestor the parents loop of cleanInvalidNodes stops at.
ParentAbove(t, node, chain) ==
  IF Len(chain) = 1 THEN t[node].parent ELSE t[chain[Len(chain)]].parent

CleanInvalidNode(r, node, nf, af) ==
  IF r.tree[node].parent = NULL THEN r
  ELSE RepairNode(r, node,
                  <<node>> \o InvalidParents(r.tree, r.tree[node].name, r.tree[node].parent),
                  ParentAbove(r.tree, node,
                    <<node>> \o InvalidParents(r.tree, r.tree[node].name,
                                               r.tree[node].parent)),
                  nf, af)

\* cleanInvalidNodes(nodes, schema, onCreate): repair each node in turn.
RECURSIVE cleanInvalidNodes(_, _, _, _, _)
cleanInvalidNodes(r, invalid, ni, nf, af) ==
  IF ni > Len(invalid) THEN r
  ELSE cleanInvalidNodes(CleanInvalidNode(r, invalid[ni], nf, af),
                         invalid, ni + 1, nf, af)

\* ------------------------------------------------------------ addRootBlocks
getRootBlockName(name) ==
  IF name = "#false" THEN ""
  ELSE IF name = "#true" THEN "p"
  ELSE name

\* trim(rootBlock): strip the leading whitespace of its first child and the
\* trailing whitespace of its last child, when these are text nodes.
TrimStart(t, node) ==
  IF node # NULL /\ t[node].type = TEXT
  THEN [t EXCEPT ![node].value = ReplaceStartWhiteSpace(@)]
  ELSE t

TrimEnd(t, node) ==
  IF node # NULL /\ t[node].type = TEXT
  THEN [t EXCEPT ![node].value = ReplaceEndWhiteSpace(@)]
  ELSE t

TrimRootBlock(t, rootBlock) ==
  IF rootBlock = NULL THEN t
  ELSE TrimEnd(TrimStart(t, t[rootBlock].firstChild), t[rootBlock].lastChild)

\* For contrast: a wrap loop that only gathers text nodes.
NeedsRootBlockTextOnly(t, node) == t[node].type = TEXT

\* Whether the wrap loop puts this child of the root into a root block.
NeedsRootBlock(t, node) ==
  \/ t[node].type = TEXT
  \/ /\ t[node].type = ELEMENT
     /\ t[node].name # "p"
     /\ t[node].name \notin BlockElements
     /\ Attr(t, node, "data-mce-type") = ""

\* Create a new root block element after the node and move the node into it;
\* the new element is the last node of the tree.
NewRootBlock(t, node, rootBlockName, rootBlockAttrs) ==
  AppendChild(Insert(Append(t, [NewNode(rootBlockName, ELEMENT)
                                  EXCEPT !.attrs = rootBlockAttrs]),
                     Root, Len(t) + 1, node, FALSE),
              Len(t) + 1, node)

\* The wrap loop of addRootBlocks over the children of the root.
RECURSIVE RootBlockLoop(_, _, _, _, _)
RootBlockLoop(t, node, rootBlockNode, rootBlockName, rootBlockAttrs) ==
  IF node = NULL THEN TrimRootBlock(t, rootBlockNode)
  ELSE IF NeedsRootBlock(t, node)
       THEN IF rootBlockNode = NULL
            THEN RootBlockLoop(NewRootBlock(t, node, rootBlockName, rootBlockAttrs),
                               t[node].next, Len(t) + 1, rootBlockName, rootBlockAttrs)
            ELSE RootBlockLoop(AppendChild(t, rootBlockNode, node), t[node].next,
                               rootBlockNode, rootBlockName, rootBlockAttrs)
       ELSE RootBlockLoop(TrimRootBlock(t, rootBlockNode), t[node].next, NULL,
                          rootBlockName, rootBlockAttrs)

addRootBlocks(t, rootBlockName, rootBlockAttrs) ==
  IF ~isValidChild(t[Root].name, rootBlockName) THEN t
  ELSE RootBlockLoop(t, t[Root].firstChild, NULL, rootBlockName, rootBlockAttrs)

\* --------------------------------------------------------- transferChildren
\* The sanitizer's output is a native tree: a sequence of native nodes in
\* document order, each naming its parent by position (0: the body element).
RECURSIVE NativeChildrenFrom(_, _, _)
NativeChildrenFrom(d, nativeParent, i) ==
  IF i > Len(d) THEN <<>>
  ELSE (IF d[i].parent = nativeParent THEN <<i>> ELSE <<>>)
         \o NativeChildrenFrom(d, nativeParent, i + 1)

NativeChildren(d, nativeParent) == NativeChildrenFrom(d, nativeParent, 1)

\* new AstNode(nodeName, nodeType) with the attributes of a native element or
\* the data of a native text node.
ImportNode(nativeChild) ==
  [NewNode(nativeChild.name, nativeChild.type)
     EXCEPT !.attrs = IF nativeChild.type = ELEMENT THEN nativeChild.attrs ELSE {},
            !.value = IF nativeChild.type = TEXT THEN nativeChild.value ELSE <<>>]

RECURSIVE transferChildren(_, _, _, _)
RECURSIVE TransferEach(_, _, _, _, _)
\* transferChildren(child, nativeChild); parent.append(child), the child being
\* the node added last to t.
TransferChild(t, parent, d, nativeChild) ==
  AppendChild(transferChildren(t, Len(t), d, nativeChild), parent, Len(t))

TransferEach(t, parent, d, kids, k) ==
  IF k > Len(kids) THEN t
  ELSE IF d[kids[k]].type \in {ELEMENT, TEXT}
       THEN TransferEach(TransferChild(Append(t, ImportNode(d[kids[k]])),
                                       parent, d, kids[k]),
                         parent, d, kids, k + 1)
       ELSE TransferEach(t, parent, d, kids, k + 1)

transferChildren(t, parent, d, nativeParent) ==
  TransferEach(t, parent, d, NativeChildren(d, nativeParent), 1)

\* ---------------------------------------------------- input documents
NativeText(value, parent) ==
  [name |-> "#text", type |-> TEXT, attrs |-> {}, value |-> value, parent |-> parent]

NativeElement(name, attrs, parent) ==
  [name |-> name, type |-> ELEMENT, attrs |-> attrs, value |-> <<>>, parent |-> parent]

Chars == {" ", "a"}

RECURSIVE SeqsOfLen(_, _)
SeqsOfLen(S, n) ==
  IF n = 0 THEN {<<>>}
  ELSE {Append(q, c) : q \in SeqsOfLen(S, n - 1), c \in S}

Texts == UNION {SeqsOfLen(Chars, n) : n \in 1..MaxTextLen} \cup {<<NBSP>>}

\* The native nodes that may take children: elements other than void ones.
CanHaveChildren(d, i) == d[i].type = ELEMENT /\ d[i].name \notin NonEmptyElements

\* The positions a node appended to d may have as its parent: the body (0) or
\* an element on the path from the last node up to the body.
RECURSIVE OpenPath(_, _)
OpenPath(d, i) ==
  IF i = 0 THEN {0}
  ELSE (IF CanHaveChildren(d, i) THEN {i} ELSE {}) \cup OpenPath(d, d[i].parent)

\* Every document of at most n nodes whose nodes carry labels from L.
RECURSIVE Docs(_, _)
Docs(L, n) ==
  IF n = 0 THEN {<<>>}
  ELSE LET smaller == Docs(L, n - 1)
       IN smaller \cup
          { Append(d, [l EXCEPT !.parent = q]) :
              <<d, l, q>> \in { x \in smaller \X L \X (0..(n - 1)) :
                                  Len(x[1]) = n - 1 /\ x[3] \in OpenPath(x[1], Len(x[1])) } }

\* ------------------------------------------- configurePurify: element hook
\* ele.setAttribute(name, value) and ele.hasAttribute(name) on an attribute set.
SetAttribute(attrs, name, value) ==
  {pair \in attrs : pair[1] # name} \cup {<<name, value>>}

HasAttribute(attrs, name) == \E pair \in attrs : pair[1] = name

\* `mce_${uid}`
MintedId(n) == "mce_" \o ToString(n)

\* ele.setAttribute(attr.name, attr.value === '{$uid}' ? `mce_${uid++}` : attr.value);
\* h is [attrs, uid, minted], minted being the ids this hook call has made.
SetRuleAttribute(h, attr) ==
  IF attr.value = UidPlaceholder
  THEN [attrs |-> SetAttribute(h.attrs, attr.name, MintedId(h.uid)),
        uid |-> h.uid + 1,
        minted |-> Append(h.minted, MintedId(h.uid))]
  ELSE [h EXCEPT !.attrs = SetAttribute(@, attr.name, attr.value)]

\* For contrast: a default attribute that is set whether present or not.
OverwriteDefaultAttribute(h, attr) == SetRuleAttribute(h, attr)

\* if (!ele.hasAttribute(attr.name)) ele.setAttribute(...)
SetDefaultAttribute(h, attr) ==
  IF HasAttribute(h.attrs, attr.name) THEN h ELSE SetRuleAttribute(h, attr)

RECURSIVE ApplyForced(_, _, _)
ApplyForced(h, forced, i) ==
  IF i > Len(forced) THEN h
  ELSE ApplyForced(SetRuleAttribute(h, forced[i]), forced, i + 1)

RECURSIVE ApplyDefault(_, _, _)
ApplyDefault(h, default, i) ==
  IF i > Len(default) THEN h
  ELSE ApplyDefault(SetDefaultAttribute(h, default[i]), default, i + 1)

\* The two unwrap tests of the hook, on the attributes as the hook left them.
MustUnwrap(rule, attrs) ==
  \/ /\ rule.attributesRequired # <<>>
     /\ ~\E i \in 1..Len(rule.attributesRequired) :
           HasAttribute(attrs, rule.attributesRequired[i])
  \/ rule.removeEmptyAttrs /\ attrs = {}

\* The hook on an element of the given name: [attrs, uid, minted, unwrap].
FixAttributes(h, rule) ==
  [attrs |-> h.attrs, uid |-> h.uid, minted |-> h.minted,
   unwrap |-> MustUnwrap(rule, h.attrs)]

uponSanitizeElement(name, attrs, uid) ==
  IF ~HasElementRule(name)
  THEN [attrs |-> attrs, uid |-> uid, minted |-> <<>>, unwrap |-> FALSE]
  ELSE FixAttributes(
         ApplyDefault(ApplyForced([attrs |-> attrs, uid |-> uid, minted |-> <<>>],
                                  AttributeRulesOf(name).attributesForced, 1),
                      AttributeRulesOf(name).attributesDefault, 1),
         AttributeRulesOf(name))

\* Remove.unwrap on the native element at position i: its children take its
\* place under its parent and the element is gone.
UnwrapNative(d, i) ==
  [j \in 1..(Len(d) - 1) |->
     IF j < i THEN d[j]
     ELSE [d[j + 1] EXCEPT !.parent = IF @ = i THEN d[i].parent
                                      ELSE IF @ > i THEN @ - 1
                                      ELSE @]]

\* --------------------------------------------------- serialize and re-read
\* What a faithful serializer followed by the markup reader gives back for a
\* tree: the same nodes in document order, except that a text node without
\* characters leaves nothing and adjacent text nodes come back as one.
RECURSIVE SerializeFrom(_, _, _, _)
SerializeText(t, node, out, pos, nativeParent) ==
  IF t[node].value = <<>> THEN SerializeFrom(t, Walk(t, node), out, pos)
  ELSE IF out # <<>> /\ out[Len(out)].type = TEXT /\ out[Len(out)].parent = nativeParent
       THEN SerializeFrom(t, Walk(t, node),
                          [out EXCEPT ![Len(out)].value = @ \o t[node].value], pos)
       ELSE SerializeFrom(t, Walk(t, node),
                          Append(out, NativeText(t[node].value, nativeParent)), pos)

SerializeNode(t, node, out, pos, nativeParent) ==
  IF t[node].type = TEXT
  THEN SerializeText(t, node, out, pos, nativeParent)
  ELSE SerializeFrom(t, Walk(t, node),
                     Append(out, NativeElement(t[node].name, t[node].attrs, nativeParent)),
                     [pos EXCEPT ![node] = Len(out) + 1])

SerializeFrom(t, node, out, pos) ==
  IF node = NULL THEN out
  ELSE SerializeNode(t, node, out, pos,
                     IF t[node].parent = Root THEN 0 ELSE pos[t[node].parent])

Serialize(t) == SerializeFrom(t, Walk(t, Root), <<>>, [n \in DOMAIN t |-> 0])

\* ------------------------------------------------------- filter registry
\* Tools.explode(name): the names between the commas of a name list, which is
\* a sequence of tokens, each a name or a comma.
RECURSIVE ExplodeFrom(_, _, _)
ExplodeFrom(tokens, i, current) ==
  IF i > Len(tokens) THEN <<current>>
  ELSE IF tokens[i] = ","
       THEN <<current>> \o ExplodeFrom(tokens, i + 1, "")
       ELSE ExplodeFrom(tokens, i + 1, tokens[i])

explode(tokens) == ExplodeFrom(tokens, 1, "")

\* For contrast: a registration that never looks for an existing entry.
AddCallbackAsNewEntry(filters, name, callback) ==
  Append(filters, [name |-> name, callbacks |-> <<callback>>])

\* One name of addNodeFilter / addAttributeFilter: push the callback on the
\* entry of that name, creating the entry when there is none.
AddCallback(filters, name, callback) ==
  IF IndexOfName(filters, name) # 0
  THEN [filters EXCEPT ![IndexOfName(filters, name)].callbacks = Append(@, callback)]
  ELSE Append(filters, [name |-> name, callbacks |-> <<callback>>])

RECURSIVE AddCallbacks(_, _, _, _)
AddCallbacks(filters, names, k, callback) ==
  IF k > Len(names) THEN filters
  ELSE AddCallbacks(AddCallback(filters, names[k], callback), names, k + 1, callback)

\* ---------------------------------------------------------- filter dispatch
\* For contrast: a dispatch that hands over the matched list as the walk left it.
KeepDetached(t, list, fi) == list

\* "Remove already removed children": fi counts down over the matched list.
RECURSIVE SpliceDetached(_, _, _)
SpliceDetached(t, list, fi) ==
  IF fi = 0 THEN list
  ELSE IF t[list[fi]].parent = NULL
       THEN SpliceDetached(t, SubSeq(list, 1, fi - 1) \o SubSeq(list, fi + 1, Len(list)),
                           fi - 1)
       ELSE SpliceDetached(t, list, fi - 1)

EndOfDispatch == [phase |-> "end", i |-> 0, ci |-> 0]

\* The first attribute filter from position i on whose name has matched nodes.
RECURSIVE SeekAttributeFilter(_, _, _)
SeekAttributeFilter(st, af, i) ==
  IF i > Len(af) THEN EndOfDispatch
  ELSE IF IndexOfName(st.matchedAttributes, af[i].name) # 0
       THEN [phase |-> "attributes", i |-> i, ci |-> 1]
       ELSE SeekAttributeFilter(st, af, i + 1)

\* The matched node-filter name at position i, or else the attribute filters.
SeekNodeFilter(st, af, i) ==
  IF i <= Len(st.matchedNodes) THEN [phase |-> "nodes", i |-> i, ci |-> 1]
  ELSE SeekAttributeFilter(st, af, 1)

\* The callbacks the dispatch loop is running at position at.
CallbacksAt(st, nf, af, at) ==
  IF at.phase = "nodes"
  THEN nf[IndexOfName(nf, st.matchedNodes[at.i].name)].callbacks
  ELSE af[at.i].callbacks

\* The position after the callback at position at has returned.
NextCallback(st, nf, af, at) ==
  IF at.ci < Len(CallbacksAt(st, nf, af, at)) THEN [at EXCEPT !.ci = @ + 1]
  ELSE IF at.phase = "nodes" THEN SeekNodeFilter(st, af, at.i + 1)
  ELSE SeekAttributeFilter(st, af, at.i + 1)

\* The matched list the loop at position at works on, and its name.
MatchedAt(st, af, at) ==
  IF at.phase = "nodes" THEN st.matchedNodes[at.i]
  ELSE st.matchedAttributes[IndexOfName(st.matchedAttributes, af[at.i].name)]

\* The state after the loop at position at has spliced its matched list.
SpliceAt(t, st, af, at) ==
  IF at.phase = "nodes"
  THEN [st EXCEPT !.matchedNodes[at.i].nodes = SpliceDetached(t, @, Len(@))]
  ELSE [st EXCEPT !.matchedAttributes[IndexOfName(st.matchedAttributes, af[at.i].name)].nodes
                    = SpliceDetached(t, @, Len(@))]

\* ------------------------------------------------------------ the machine
VARIABLES
  universe,          \* which bounded set of inputs this parser instance is fed
  settings,          \* DomParserSettings, fixed at construction
  nodeFilters,       \* entries [name, callbacks] in creation order
  attributeFilters,  \* entries [name, callbacks] in creation order
  registered,        \* history: every addNodeFilter / addAttributeFilter call
  pc,                \* where the current parse call stands
  parses,            \* parse calls made so far
  args,              \* ParserArgs of the current call
  element,           \* the sanitized native tree of the current call
  tree,              \* the AstNodes of the current call, tree[Root] the root
  nodes,             \* simplifyDom: the nodes that survived the forward walk
  idx,               \* simplifyDom: the backward walk's position in nodes
  state,             \* the WalkResult of the current call
  at,                \* filter dispatch: the callback to invoke next
  calls,             \* history: the filter callbacks invoked by this call
  before,            \* history: the tree before the latest step
  walked,            \* history: the tree and the logs the walks left
  source,            \* history: the native tree of the first parse
  uid,               \* configurePurify: the counter behind the minted ids
  minted,            \* history: every id minted on this parser instance
  hook               \* history: the latest call of the element hook

vars == <<universe, settings, nodeFilters, attributeFilters, registered, pc, parses,
          args, element, tree, nodes, idx, state, at, calls, before, walked, source,
          uid, minted, hook>>

purify == <<uid, minted, hook>>

NoHook ==
  [position |-> 0, name |-> "", was |-> {}, now |-> {}, unwrapped |-> FALSE,
   minted |-> <<>>, earlier |-> <<>>]

registry == <<nodeFilters, attributeFilters, registered>>

NoRepair == [invoked |-> FALSE, nodes |-> <<>>, created |-> {}]

NoWalks ==
  [processed |-> <<>>, forward |-> <<>>, post |-> <<>>, visited |-> <<>>,
   unwrapped |-> <<>>, tree |-> <<>>, repair |-> NoRepair]

NoArgs == [context |-> "", isRootContent |-> FALSE, insert |-> FALSE, invalid |-> FALSE]

\* --- the bounded inputs of each universe
PipelineLabels ==
  {NativeText(v, 0) : v \in Texts}
    \cup {NativeElement(n, {}, 0) : n \in {"p", "div", "strong", "foo", "br", "pre"}}
    \cup {NativeElement("strong", {<<"data-mce-bogus", "all">>}, 0),
          NativeElement("strong", {<<"data-mce-bogus", "1">>}, 0),
          NativeElement("strong", {<<"data-mce-type", "bookmark">>}, 0)}

RoundTripLabels ==
  {NativeText(v, 0) : v \in Texts}
    \cup {NativeElement(n, {}, 0) : n \in {"p", "strong", "br"}}

FilterLabels ==
  {NativeText(<<"a">>, 0),
   NativeElement("p", {<<"class", "c">>}, 0),
   NativeElement("div", {<<"class", "c">>}, 0),
   NativeElement("a", {<<"class", "c">>, <<"id", "i">>}, 0)}

\* Elements the validation walk treats differently with validation on: foo
\* has no rule, b has an output name, div is not valid in p.
UnvalidatedLabels ==
  {NativeElement("foo", {<<"class", "c">>}, 0),
   NativeElement("b", {<<"class", "c">>}, 0),
   NativeElement("p", {<<"class", "c">>}, 0),
   NativeElement("div", {}, 0)}

\* The markup handed to the sanitizer in the universe that follows its element
\* hook: elements with attribute rules, with and without the attributes.
RawLabels ==
  {NativeText(<<"a">>, 0),
   NativeElement("span", {}, 0),
   NativeElement("span", {<<"class", "c">>}, 0),
   NativeElement("img", {}, 0),
   NativeElement("img", {<<"class", "c">>, <<"alt", "a">>}, 0),
   NativeElement("abbr", {}, 0),
   NativeElement("abbr", {<<"title", "t">>}, 0)}

RawInputs == Docs(RawLabels, MaxNodes - 1)

Inputs(u) ==
  IF u = "pipeline" THEN Docs(PipelineLabels, MaxNodes)
  ELSE IF u = "roundtrip" THEN Docs(RoundTripLabels, MaxNodes)
  ELSE IF u = "unvalidated" THEN Docs(UnvalidatedLabels, MaxNodes - 1)
  ELSE Docs(FilterLabels, MaxNodes - 1)

SettingsOf(validate, rootBlock, br) ==
  [validate |-> validate, root_name |-> "body", forced_root_block |-> rootBlock,
   forced_root_block_attrs |-> {}, padd_empty_with_br |-> br]

SettingsFor(u) ==
  IF u = "pipeline"
  THEN {SettingsOf(TRUE, "p", FALSE), SettingsOf(TRUE, "strong", TRUE),
        SettingsOf(FALSE, "#false", FALSE)}
  ELSE IF u = "roundtrip"
  THEN {SettingsOf(TRUE, "#false", FALSE), SettingsOf(TRUE, "p", TRUE)}
  ELSE IF u = "sanitize" THEN {SettingsOf(TRUE, "p", FALSE)}
  ELSE {SettingsOf(TRUE, "#false", FALSE), SettingsOf(FALSE, "#false", FALSE)}

ArgsFor(u) ==
  IF u = "pipeline"
  THEN {NoArgs, [NoArgs EXCEPT !.context = "p"],
        [NoArgs EXCEPT !.context = "div", !.isRootContent = TRUE]}
  ELSE IF u \in {"roundtrip", "sanitize"} THEN {NoArgs}
  ELSE {NoArgs, [NoArgs EXCEPT !.context = "p"]}

ParseLimit(u) == IF u \in {"filters", "sanitize"} THEN MaxParses ELSE 1

NodeFilterNames == {<<"p">>, <<"p", ",", "a">>}

AttributeFilterNames == {<<"class">>, <<"id", ",", "class">>}

\* --- construction
InitOf(u) ==
  /\ universe = u
  /\ settings \in SettingsFor(u)
  /\ nodeFilters = <<>>
  /\ attributeFilters = <<>>
  /\ registered = <<>>
  /\ pc = "idle"
  /\ parses = 0
  /\ args = NoArgs
  /\ element = <<>>
  /\ tree = <<>>
  /\ nodes = <<>>
  /\ idx = 0
  /\ state = EmptyWalkResult
  /\ at = EndOfDispatch
  /\ calls = <<>>
  /\ before = <<>>
  /\ walked = NoWalks
  /\ source = <<>>
  /\ uid = 0
  /\ minted = <<>>
  /\ hook = NoHook

Init == InitOf("pipeline")

InitRoundTrip == InitOf("roundtrip")

InitFilters == InitOf("filters")

InitSanitize == InitOf("sanitize")

InitUnvalidated == InitOf("unvalidated")

\* --- registration
addNodeFilter(name, callback) ==
  /\ pc = "idle"
  /\ nodeFilters' = AddCallbacks(nodeFilters, explode(name), 1, callback)
  /\ registered' = Append(registered, [kind |-> "node", names |-> explode(name),
                                       callback |-> callback, after |-> parses])
  /\ UNCHANGED <<universe, settings, purify, attributeFilters, pc, parses, args, element, tree,
                 nodes, idx, state, at, calls, before, walked, source>>

addAttributeFilter(name, callback) ==
  /\ pc = "idle"
  /\ attributeFilters' = AddCallbacks(attributeFilters, explode(name), 1, callback)
  /\ registered' = Append(registered, [kind |-> "attribute", names |-> explode(name),
                                       callback |-> callback, after |-> parses])
  /\ UNCHANGED <<universe, settings, purify, nodeFilters, pc, parses, args, element, tree,
                 nodes, idx, state, at, calls, before, walked, source>>

AddNodeFilter ==
  /\ Len(registered) < MaxRegs
  /\ \E name \in NodeFilterNames : addNodeFilter(name, Len(registered) + 1)

AddAttributeFilter ==
  /\ Len(registered) < MaxRegs
  /\ \E name \in AttributeFilterNames : addAttributeFilter(name, Len(registered) + 1)

\* --- parse: the root, the sanitizer's tree, transferChildren
BeginParse(html, a) ==
  /\ args' = a
  /\ element' = html
  /\ tree' = transferChildren(
               <<NewNode(IF a.context # "" THEN a.context ELSE settings.root_name, FRAGMENT)>>,
               Root, html, 0)
  /\ nodes' = <<>>
  /\ idx' = 0
  /\ state' = EmptyWalkResult
  /\ at' = EndOfDispatch
  /\ calls' = <<>>
  /\ before' = <<>>
  /\ walked' = NoWalks
  /\ pc' = "simplify"
  /\ parses' = parses + 1

ParseCall ==
  /\ pc = "idle"
  /\ parses < ParseLimit(universe)
  /\ \E html \in Inputs(universe), a \in ArgsFor(universe) :
       /\ BeginParse(html, a)
       /\ source' = html
  /\ UNCHANGED <<universe, settings, purify, registry>>

\* --- parse: purify.sanitize(html) starts on the markup
SanitizeCall ==
  /\ pc = "idle"
  /\ parses < ParseLimit(universe)
  /\ \E html \in RawInputs, a \in ArgsFor(universe) :
       /\ element' = html
       /\ source' = html
       /\ args' = a
  /\ idx' = 1
  /\ before' = <<>>
  /\ hook' = NoHook
  /\ pc' = "sanitize"
  /\ UNCHANGED <<universe, settings, registry, parses, tree, nodes, state, at, calls,
                 walked, uid, minted>>

\* --- parse: the sanitizer calls the element hook on the node at position idx
\* of the native tree; h is what the hook made of it.
Hooked(h) ==
  /\ element' = IF h.unwrap THEN UnwrapNative(element, idx)
                ELSE [element EXCEPT ![idx].attrs = h.attrs]
  /\ idx' = IF h.unwrap THEN idx ELSE idx + 1
  /\ uid' = h.uid
  /\ minted' = minted \o h.minted
  /\ hook' = [position |-> idx, name |-> element[idx].name, was |-> element[idx].attrs,
              now |-> h.attrs, unwrapped |-> h.unwrap, minted |-> h.minted,
              earlier |-> minted]

HookStep ==
  /\ pc = "sanitize"
  /\ idx <= Len(element)
  /\ Hooked(uponSanitizeElement(element[idx].name, element[idx].attrs, uid))
  /\ before' = element
  /\ UNCHANGED <<universe, settings, registry, pc, parses, args, tree, nodes, state, at,
                 calls, walked, source>>

\* --- parse: the sanitizer returns its tree, transferChildren
Sanitized ==
  /\ pc = "sanitize"
  /\ idx > Len(element)
  /\ BeginParse(element, args)
  /\ UNCHANGED <<universe, settings, purify, registry, source>>

\* --- parse: simplifyDom, forward walk
ForwardWalked(w) ==
  /\ tree' = w.tree
  /\ nodes' = w.nodes
  /\ idx' = Len(w.nodes)
  /\ walked' = [walked EXCEPT !.processed = w.processed, !.forward = w.tree]
  /\ pc' = "postprocess"

SimplifyForward ==
  /\ pc = "simplify"
  /\ ForwardWalked(ForwardWalk([tree |-> tree, nodes |-> <<>>, processed |-> <<>>],
                               Root, Root, args.isRootContent))
  /\ before' = tree
  /\ UNCHANGED <<universe, settings, purify, registry, parses, args, element, state, at, calls,
                 source>>

\* --- parse: simplifyDom, one node of the backward walk
PostprocessStep ==
  /\ pc = "postprocess"
  /\ idx > 0
  /\ tree' = PostprocessNode(tree, nodes[idx], args.isRootContent,
                             settings.padd_empty_with_br \/ args.insert)
  /\ idx' = idx - 1
  /\ before' = tree
  /\ walked' = [walked EXCEPT !.post = Append(@, nodes[idx])]
  /\ pc' = IF idx = 1 THEN "walk" ELSE "postprocess"
  /\ UNCHANGED <<universe, settings, purify, registry, parses, args, element, nodes, state, at,
                 calls, source>>

\* --- parse: walker
Walked(w) ==
  /\ tree' = w.tree
  /\ state' = w.state
  /\ walked' = [walked EXCEPT !.visited = w.visited, !.unwrapped = w.unwrapped,
                              !.tree = w.tree]

ValidationWalk ==
  /\ pc = "walk"
  /\ Walked(walker(tree, settings.validate, nodeFilters, attributeFilters))
  /\ before' = tree
  /\ pc' = "invalid"
  /\ UNCHANGED <<universe, settings, purify, registry, parses, args, element, nodes, idx, at,
                 calls, source>>

\* --- parse: fix invalid children, or report them in a contextual parse
\* For contrast: a partition on the opposite test, child.parent !== rootNode.
RECURSIVE SelectBelowTopLevel(_, _, _)
SelectBelowTopLevel(t, list, pass) ==
  IF list = <<>> THEN <<>>
  ELSE (IF (t[Head(list)].parent # Root) = pass THEN <<Head(list)>> ELSE <<>>)
         \o SelectBelowTopLevel(t, Tail(list), pass)

\* Arr.partition(invalidChildren, (child) => child.parent === rootNode): the
\* pass list when pass is TRUE, the fail list otherwise.
RECURSIVE SelectTopLevel(_, _, _)
SelectTopLevel(t, list, pass) ==
  IF list = <<>> THEN <<>>
  ELSE (IF (t[Head(list)].parent = Root) = pass THEN <<Head(list)>> ELSE <<>>)
         \o SelectTopLevel(t, Tail(list), pass)

Cleaned(r) ==
  /\ tree' = r.tree
  /\ state' = r.state

\* The call cleanInvalidNodes(list, schema, onCreate), and its record in the
\* history: the list it was given and the nodes it added to the tree.
Repaired(r, list) ==
  /\ Cleaned(r)
  /\ walked' = [walked EXCEPT !.repair =
                  [invoked |-> TRUE, nodes |-> list,
                   created |-> {n \in DOMAIN r.tree : n > Len(tree)}]]

RepairCall(list) ==
  Repaired(cleanInvalidNodes([tree |-> tree, state |-> state], list, 1,
                             nodeFilters, attributeFilters),
           list)

FixInvalidChildren ==
  /\ pc = "invalid"
  /\ IF settings.validate /\ Len(state.invalidChildren) > 0
     THEN IF args.context # ""
          THEN /\ RepairCall(SelectTopLevel(tree, state.invalidChildren, FALSE))
               /\ args' = [args EXCEPT !.invalid =
                             Len(SelectTopLevel(tree, state.invalidChildren, TRUE)) > 0]
          ELSE /\ RepairCall(state.invalidChildren)
               /\ args' = args
     ELSE UNCHANGED <<tree, state, args, walked>>
  /\ before' = tree
  /\ pc' = "rootblocks"
  /\ UNCHANGED <<universe, settings, purify, registry, parses, element, nodes, idx, at, calls,
                 source>>

\* --- parse: wrap nodes in the root into block elements
rootBlockName == getRootBlockName(settings.forced_root_block)

WrapRootBlocks ==
  /\ pc = "rootblocks"
  /\ tree' = IF rootBlockName # "" /\ (tree[Root].name = "body" \/ args.isRootContent)
             THEN addRootBlocks(tree, rootBlockName, settings.forced_root_block_attrs)
             ELSE tree
  /\ before' = tree
  /\ at' = SeekNodeFilter(state, attributeFilters, 1)
  /\ pc' = "filters"
  /\ UNCHANGED <<universe, settings, purify, registry, parses, args, element, nodes, idx, state,
                 calls, walked, source>>

\* --- parse: run one filter callback; what the callback does to the tree is
\* its own business: here it detaches at most one node.
Invoke(st, matched) ==
  /\ state' = st
  /\ calls' = Append(calls,
                [phase |-> at.phase, name |-> matched.name,
                 callback |-> CallbacksAt(st, nodeFilters, attributeFilters, at)[at.ci],
                 ci |-> at.ci, nodes |-> matched.nodes,
                 detached |-> {n \in DOMAIN tree : tree[n].parent = NULL /\ n # Root}])
  /\ at' = NextCallback(st, nodeFilters, attributeFilters, at)

Spliced(st) == Invoke(st, MatchedAt(st, attributeFilters, at))

FilterCallback ==
  /\ pc = "filters"
  /\ ~args.invalid
  /\ at.phase # "end"
  /\ Spliced(IF at.ci = 1 THEN SpliceAt(tree, state, attributeFilters, at) ELSE state)
  /\ \E victim \in DOMAIN tree :
       tree' = IF victim = Root THEN tree ELSE Remove(tree, victim)
  /\ before' = tree
  /\ UNCHANGED <<universe, settings, purify, registry, pc, parses, args, element, nodes, idx,
                 walked, source>>

\* --- parse: return rootNode
Return ==
  /\ pc = "filters"
  /\ args.invalid \/ at.phase = "end"
  /\ pc' = "done"
  /\ UNCHANGED <<universe, settings, purify, registry, parses, args, element, tree, nodes, idx,
                 state, at, calls, before, walked, source>>

\* --- the caller takes the tree; the parser instance is ready for the next call
Release ==
  /\ pc = "done"
  /\ pc' = "idle"
  /\ args' = NoArgs
  /\ element' = <<>>
  /\ tree' = <<>>
  /\ nodes' = <<>>
  /\ idx' = 0
  /\ state' = EmptyWalkResult
  /\ at' = EndOfDispatch
  /\ calls' = <<>>
  /\ before' = <<>>
  /\ walked' = NoWalks
  /\ source' = <<>>
  /\ UNCHANGED <<universe, settings, purify, registry, parses>>

\* --- the caller serializes the tree and parses the markup again
Reparse ==
  /\ pc = "done"
  /\ parses = 1
  /\ BeginParse(Serialize(tree), [args EXCEPT !.invalid = FALSE])
  /\ UNCHANGED <<universe, settings, purify, registry, source>>

Pipeline ==
  \/ SimplifyForward
  \/ PostprocessStep
  \/ ValidationWalk
  \/ FixInvalidChildren
  \/ WrapRootBlocks
  \/ Return

Next == ParseCall \/ Pipeline

NextRoundTrip == ParseCall \/ Pipeline \/ Reparse

NextFilters ==
  \/ AddNodeFilter
  \/ AddAttributeFilter
  \/ ParseCall
  \/ Pipeline
  \/ FilterCallback
  \/ Release

NextUnvalidated ==
  \/ AddNodeFilter
  \/ AddAttributeFilter
  \/ ParseCall
  \/ Pipeline
  \/ FilterCallback

NextSanitize ==
  \/ SanitizeCall
  \/ HookStep
  \/ Sanitized
  \/ Pipeline
  \/ Release

Spec == Init /\ [][Next]_vars

SpecRoundTrip == InitRoundTrip /\ [][NextRoundTrip]_vars

SpecFilters == InitFilters /\ [][NextFilters]_vars

SpecSanitize == InitSanitize /\ [][NextSanitize]_vars

SpecUnvalidated == InitUnvalidated /\ [][NextUnvalidated]_vars

\* ============================================================= properties
\* The properties read the tree through their own definitions of child list,
\* reachability and document order, not through the operators the pipeline
\* itself walks with.

\* The chain of next links from node, at most fuel nodes long.
RECURSIVE ChainFrom(_, _, _)
ChainFrom(t, node, fuel) ==
  IF node = NULL \/ fuel = 0 THEN <<>>
  ELSE <<node>> \o ChainFrom(t, t[node].next, fuel - 1)

Children(t, parent) == ChainFrom(t, t[parent].firstChild, Len(t))

Successors(t, S) ==
  (S \cup {t[n].firstChild : n \in S} \cup {t[n].next : n \in S}) \ {NULL}

RECURSIVE ReachFrom(_, _)
ReachFrom(t, S) ==
  IF Successors(t, S) = S THEN S ELSE ReachFrom(t, Successors(t, S))

\* The nodes reachable from the root through firstChild and next.
Reachable(t) == ReachFrom(t, {Root})

\* The nodes below the root in document order.
RECURSIVE Subtree(_, _)
RECURSIVE SubtreesOf(_, _, _)
SubtreesOf(t, kids, i) ==
  IF i > Len(kids) THEN <<>>
  ELSE Subtree(t, kids[i]) \o SubtreesOf(t, kids, i + 1)

Subtree(t, node) == <<node>> \o SubtreesOf(t, Children(t, node), 1)

Preorder(t) == SubtreesOf(t, Children(t, Root), 1)

\* The links around parent, whose chain of children is kids, agree.
ChainConsistent(t, parent, kids) ==
  /\ (t[parent].firstChild = NULL) <=> (t[parent].lastChild = NULL)
  /\ kids # <<>> =>
       /\ t[kids[1]].prev = NULL
       /\ t[kids[Len(kids)]].next = NULL
       /\ kids[Len(kids)] = t[parent].lastChild
  /\ \A i \in 1..Len(kids) :
       /\ t[kids[i]].parent = parent
       /\ i > 1 => t[kids[i]].prev = kids[i - 1]
       /\ \A j \in 1..Len(kids) : kids[i] = kids[j] => i = j
  /\ \A n \in DOMAIN t : t[n].parent = parent => n \in SeqRange(kids)

LinksConsistent(t) ==
  /\ t[Root].parent = NULL /\ t[Root].prev = NULL /\ t[Root].next = NULL
  /\ \A parent \in Reachable(t) : ChainConsistent(t, parent, Children(t, parent))

\* The walker's test: both names are tracked by schema.children and the node
\* is not among the valid children of its parent.
InvalidUnderParent(t, node) ==
  /\ t[node].parent # NULL
  /\ t[t[node].parent].name \in DOMAIN SchemaChildren
  /\ t[node].name \in DOMAIN SchemaChildren
  /\ t[node].name \notin SchemaChildren[t[t[node].parent].name]

\* The validation walk met an invalid child whose parent is the root.
TopLevelInvalid ==
  \E i \in 1..Len(walked.visited) :
    /\ walked.tree[walked.visited[i]].parent = Root
    /\ InvalidUnderParent(walked.tree, walked.visited[i])

\* C1: a parse with a context and validation on, whose walk recorded an
\* invalid child of the synthetic root, returns with args.invalid set and has
\* invoked no node-filter or attribute-filter callback.
C1_ContextualInvalid ==
  (pc = "done" /\ args.context # "" /\ settings.validate /\ TopLevelInvalid)
    => (args.invalid /\ calls = <<>>)

\* Such a parse has returned, and it had matched nodes for a registered filter.
C1_Witness ==
  /\ pc = "done" /\ args.context # "" /\ settings.validate /\ TopLevelInvalid
  /\ args.invalid
  /\ state.matchedNodes # <<>>
  /\ state.matchedAttributes # <<>>

\* C2: at every stage of parse, and so in the tree parse returns, the links of
\* every node reachable from the root are consistent: a parent's chain from
\* firstChild along next ends at lastChild, holds exactly the nodes whose
\* parent it is, and prev is the inverse of next.
C2_LinksConsistent == tree # <<>> => LinksConsistent(tree)

\* A returned tree that went through an unwrap (an element is detached and
\* its child is still attached), the removal of a text node and a root-block
\* wrap (a node was created).
C2_Witness ==
  /\ pc = "done"
  /\ \E n \in 1..Len(element) :
       /\ element[n].type = ELEMENT /\ tree[n + 1].parent = NULL
       /\ \E c \in 1..Len(element) : element[c].parent = n /\ tree[c + 1].parent # NULL
  /\ \E n \in DOMAIN tree : n # Root /\ tree[n].parent = NULL /\ tree[n].type = TEXT
  /\ Len(tree) > Len(element) + 1
  /\ tree[Len(tree)].parent = Root

\* An element the schema has no rule for.
Unknown(t, node) == t[node].type = ELEMENT /\ ~HasElementRule(t[node].name)

\* The nearest node from node upwards that is not an unknown element.
RECURSIVE KnownAncestor(_, _)
KnownAncestor(t, node) ==
  IF node = NULL \/ ~Unknown(t, node) THEN node
  ELSE KnownAncestor(t, t[node].parent)

KnownOnly(t, seq) ==
  LET Known(n) == ~Unknown(t, n) IN SelectSeq(seq, Known)

UnknownOnly(t, seq) ==
  LET Test(n) == Unknown(t, n) IN SelectSeq(seq, Test)

\* C3: with validation on, the validation walk unwraps every element without
\* a schema rule: the walked tree is the tree before the walk with exactly
\* those elements taken out, every other node in its place in document order
\* under its nearest remaining ancestor, and the walk has visited each
\* remaining node once, so no element without a rule remains.
C3_UnknownUnwrapped ==
  (pc = "invalid" /\ settings.validate) =>
    /\ Preorder(tree) = KnownOnly(before, Preorder(before))
    /\ \A n \in SeqRange(Preorder(tree)) :
         /\ tree[n].parent = KnownAncestor(before, before[n].parent)
         /\ ~Unknown(tree, n)
    /\ walked.visited = Preorder(tree)
    /\ walked.unwrapped = UnknownOnly(before, Preorder(before))
    /\ \A n \in SeqRange(walked.unwrapped) :
         tree[n].parent = NULL /\ tree[n].firstChild = NULL

\* The walk has unwrapped an unknown element nested in another one, with a
\* child of its own.
C3_Witness ==
  /\ pc = "invalid" /\ settings.validate
  /\ \E n \in SeqRange(walked.unwrapped) :
       /\ before[n].firstChild # NULL
       /\ Unknown(before, before[n].firstChild)
       /\ before[before[n].firstChild].firstChild # NULL

\* A node the root-block wrapping is to gather: a text node, or an element
\* that is not p, not block-level and carries no data-mce-type.
Bare(t, node) ==
  \/ t[node].type = TEXT
  \/ /\ t[node].type = ELEMENT
     /\ t[node].name # "p"
     /\ t[node].name \notin BlockElements
     /\ ~HasAttr(t, node, "data-mce-type")

\* Root-block wrapping has just run with a root-block name that is valid in
\* the root; before is the tree it started from.
RootBlocksAdded ==
  /\ pc = "filters" /\ calls = <<>>
  /\ rootBlockName # ""
  /\ before[Root].name = "body" \/ args.isRootContent
  /\ isValidChild(before[Root].name, rootBlockName)

\* A node the wrapping created.
IsWrapper(node) == node > Len(before)

\* The children of the root with every wrapper replaced by its own children.
RECURSIVE Unwrapped(_, _)
Unwrapped(kids, i) ==
  IF i > Len(kids) THEN <<>>
  ELSE (IF IsWrapper(kids[i]) THEN Children(tree, kids[i]) ELSE <<kids[i]>>)
         \o Unwrapped(kids, i + 1)

OriginalOnly(seq) ==
  LET Test(n) == ~IsWrapper(n) IN SelectSeq(seq, Test)

\* Each maximal run of bare root children sits in one new wrapper at the
\* position of the run's first node, and nothing else moved.
RunsWrapped(kids) ==
  /\ Unwrapped(kids, 1) = Children(before, Root)
  /\ \A i \in 1..Len(kids) :
       IF IsWrapper(kids[i])
       THEN /\ tree[kids[i]].type = ELEMENT
            /\ tree[kids[i]].name = rootBlockName
            /\ tree[kids[i]].attrs = settings.forced_root_block_attrs
            /\ Children(tree, kids[i]) # <<>>
            /\ \A c \in SeqRange(Children(tree, kids[i])) : Bare(before, c)
            /\ i > 1 => ~IsWrapper(kids[i - 1])
       ELSE ~Bare(before, kids[i])
  /\ \A n \in DOMAIN tree : IsWrapper(n) => n \in SeqRange(kids)
  /\ OriginalOnly(Preorder(tree)) = Preorder(before)

RECURSIVE InWhiteSpaceElement(_, _)
InWhiteSpaceElement(t, node) ==
  /\ node # NULL
  /\ t[node].name \in WhiteSpaceElements \/ InWhiteSpaceElement(t, t[node].parent)

NoWhiteSpaceRun(text) ==
  \A i \in 1..(Len(text) - 1) : ~(IsWhiteSpace(text[i]) /\ IsWhiteSpace(text[i + 1]))

\* First child of a block parent other than the root, or right after a
\* line-break-equivalent node.
AtLeadingEdge(t, node) ==
  IF t[node].prev = NULL
  THEN t[node].parent # Root /\ t[t[node].parent].name \in BlockElements
  ELSE t[t[node].prev].name \in BlockElements \/ t[t[node].prev].name = "br"

\* Last child of a block parent other than the root, or right before a block.
AtTrailingEdge(t, node) ==
  IF t[node].next = NULL
  THEN t[node].parent # Root /\ t[t[node].parent].name \in BlockElements
  ELSE t[t[node].next].name \in BlockElements

\* C5: after the two normalizer passes every attached text node outside
\* whitespace-preserving elements has no run of two whitespace characters, no
\* leading whitespace at a leading edge and no trailing whitespace at a
\* trailing edge.
C5_WhitespaceNormalized ==
  pc = "walk" =>
    \A n \in SeqRange(Preorder(tree)) :
      (tree[n].type = TEXT /\ ~InWhiteSpaceElement(tree, n)) =>
        /\ NoWhiteSpaceRun(tree[n].value)
        /\ AtLeadingEdge(tree, n) =>
             (tree[n].value = <<>> \/ ~IsWhiteSpace(Head(tree[n].value)))
        /\ AtTrailingEdge(tree, n) =>
             (tree[n].value = <<>> \/ ~IsWhiteSpace(tree[n].value[Len(tree[n].value)]))

\* The backward walk has just post-processed nodes[idx + 1]; before is the
\* tree that step started from.
JustPostprocessed == pc \in {"postprocess", "walk"} /\ idx < Len(nodes)

WithoutNodes(seq, S) ==
  LET Test(n) == n \notin S IN SelectSeq(seq, Test)

\* The element was taken out: detached with its children when block-level,
\* replaced by its children when inline; no node was created.
RemovedWhenEmpty(node) ==
  /\ Len(tree) = Len(before)
  /\ tree[node].parent = NULL
  /\ IF before[node].name \in BlockElements
     THEN /\ Children(tree, node) = Children(before, node)
          /\ Preorder(tree) = WithoutNodes(Preorder(before), SeqRange(Subtree(before, node)))
     ELSE /\ Children(tree, node) = <<>>
          /\ Preorder(tree) = WithoutNodes(Preorder(before), {node})
          /\ \A c \in SeqRange(Children(before, node)) :
               tree[c].parent = before[node].parent

\* The element stays where it was and its content is one new padding node.
PaddedWhenEmpty(node) ==
  /\ Len(tree) = Len(before) + 1
  /\ tree[node].parent = before[node].parent
  /\ Children(tree, node) = <<Len(tree)>>
  /\ tree[Len(tree)].firstChild = NULL
  /\ \/ tree[Len(tree)].type = ELEMENT /\ tree[Len(tree)].name = "br"
     \/ tree[Len(tree)].type = TEXT /\ tree[Len(tree)].value = <<NBSP>>

PostprocessedElement(node, rule) ==
  IF rule.removeEmpty /\ isEmpty(before, node)
  THEN RemovedWhenEmpty(node)
  ELSE IF rule.paddEmpty /\ (isEmpty(before, node) \/ isPaddedWithNbsp(before, node))
       THEN PaddedWhenEmpty(node)
       ELSE tree = before

\* C6: pass 2 on an element with a schema rule: remove-when-empty and empty:
\* detached if block-level, unwrapped if inline, never padded; otherwise
\* pad-when-empty and empty or nbsp-padded: its content is exactly one padding
\* node, a br element or an nbsp text node; otherwise untouched.
C6_RemoveOrPad ==
  (/\ JustPostprocessed
   /\ before[nodes[idx + 1]].type = ELEMENT
   /\ HasElementRule(before[nodes[idx + 1]].name))
    => PostprocessedElement(nodes[idx + 1], SchemaElements[before[nodes[idx + 1]].name])

\* An empty element with both flags set (div) was removed, not padded.
C6_Witness ==
  /\ JustPostprocessed
  /\ before[nodes[idx + 1]].type = ELEMENT
  /\ before[nodes[idx + 1]].name = "div"
  /\ isEmpty(before, nodes[idx + 1])
  /\ before[nodes[idx + 1]].parent # NULL
  /\ tree[nodes[idx + 1]].parent = NULL

\* The callbacks registered so far for a name, in registration order, read
\* from the history of registration calls.
RECURSIVE CallbacksRegistered(_, _, _)
CallbacksRegistered(kind, name, i) ==
  IF i > Len(registered) THEN <<>>
  ELSE (IF registered[i].kind = kind /\ name \in SeqRange(registered[i].names)
        THEN <<registered[i].callback>> ELSE <<>>)
         \o CallbacksRegistered(kind, name, i + 1)

KindOf(phase) == IF phase = "nodes" THEN "node" ELSE "attribute"

SameFilter(a, b) == a.phase = b.phase /\ a.name = b.name

\* The callbacks of one name run back to back: call i is the first of its
\* name or follows the one before it, and is the last or is followed by the
\* next.
BackToBack(i, registeredCallbacks) ==
  /\ calls[i].ci \in 1..Len(registeredCallbacks)
  /\ calls[i].callback = registeredCallbacks[calls[i].ci]
  /\ calls[i].ci > 1 =>
       /\ i > 1
       /\ SameFilter(calls[i - 1], calls[i])
       /\ calls[i - 1].ci = calls[i].ci - 1
       /\ calls[i - 1].nodes = calls[i].nodes
  /\ (calls[i].ci < Len(registeredCallbacks) /\ (i < Len(calls) \/ pc = "done")) =>
       /\ i < Len(calls)
       /\ SameFilter(calls[i + 1], calls[i])
       /\ calls[i + 1].ci = calls[i].ci + 1

\* C7: in a dispatch, the list handed to the first callback of a name holds no
\* node that was detached by then, and the callbacks registered for the name
\* are invoked one after another, in registration order, with that same list.
C7_DispatchSurvivors ==
  \A i \in 1..Len(calls) :
    /\ ~args.invalid
    /\ calls[i].ci = 1 => SeqRange(calls[i].nodes) \cap calls[i].detached = {}
    /\ BackToBack(i, CallbacksRegistered(KindOf(calls[i].phase), calls[i].name, 1))

\* A node the walk matched under the name of call i and that was detached by
\* the time of call i.
MatchedButDetached(i) ==
  \E n \in calls[i].detached :
    /\ n \in SeqRange(walked.visited)
    /\ IF calls[i].phase = "nodes" THEN walked.tree[n].name = calls[i].name
       ELSE HasAttr(walked.tree, n, calls[i].name)

\* A dispatch whose first list lost a node detached by the pipeline, whose
\* first name has two callbacks, and whose later list lost a node detached by
\* a callback of an earlier name.
C7_Witness ==
  /\ pc = "done"
  /\ Len(calls) >= 3
  /\ MatchedButDetached(1)
  /\ calls[2].ci = 2
  /\ \E j \in 3..Len(calls) :
       /\ calls[j].ci = 1
       /\ \E n \in calls[j].detached \ calls[1].detached :
            /\ n \in SeqRange(walked.visited)
            /\ IF calls[j].phase = "nodes" THEN walked.tree[n].name = calls[j].name
               ELSE HasAttr(walked.tree, n, calls[j].name)

UniqueNames(filters) ==
  \A i, j \in 1..Len(filters) : filters[i].name = filters[j].name => i = j

\* The registry holds what the registration calls so far add up to.
Cumulative(kind, filters) ==
  /\ UniqueNames(filters)
  /\ \A i \in 1..Len(filters) :
       filters[i].callbacks = CallbacksRegistered(kind, filters[i].name, 1)
  /\ \A r \in 1..Len(registered) :
       registered[r].kind = kind =>
         \A name \in SeqRange(registered[r].names) :
           \E i \in 1..Len(filters) : filters[i].name = name

\* The walk of the current parse matched the name.
MatchedInWalk(kind, name) ==
  \E n \in SeqRange(walked.visited) :
    IF kind = "node" THEN walked.tree[n].name = name
    ELSE walked.tree[n].type = ELEMENT /\ HasAttr(walked.tree, n, name)

Invocations(kind, name, callback) ==
  {i \in 1..Len(calls) :
     KindOf(calls[i].phase) = kind /\ calls[i].name = name /\ calls[i].callback = callback}

C9_Idempotent ==
  (universe = "roundtrip" /\ pc = "done" /\ parses = 2) =>
    /\ Len(tree) = Len(element) + 1
    /\ Preorder(tree) = [i \in 1..Len(element) |-> i + 1]
    /\ \A i \in 1..Len(element) :
         /\ tree[i + 1].name = element[i].name
         /\ tree[i + 1].value = element[i].value
         /\ tree[i + 1].attrs = element[i].attrs
         /\ tree[i + 1].parent = element[i].parent + 1

\* Position of an attribute name in the attribute-filter list.
FilterPosition(name) ==
  CHOOSE i \in 1..Len(attributeFilters) : attributeFilters[i].name = name

\* Position in the walk of the first node carrying the attribute.
FirstMatch(name) ==
  CHOOSE i \in 1..Len(walked.visited) :
    /\ HasAttr(walked.tree, walked.visited[i], name)
    /\ \A j \in 1..(i - 1) : ~HasAttr(walked.tree, walked.visited[j], name)

\* The nodes of the walk that carry the attribute, in walk order.
CarriersOf(name) ==
  LET Test(n) == walked.tree[n].type = ELEMENT /\ HasAttr(walked.tree, n, name)
  IN SelectSeq(walked.visited, Test)

\* The matched attribute lists as the walk left them: one per registered name
\* some walked node carries, created in walk order and, for names first seen
\* on the same node, most recently registered first.
MatchedMostRecentFirst(matched) ==
  /\ \A k \in 1..Len(matched) :
       /\ \E i \in 1..Len(attributeFilters) : attributeFilters[i].name = matched[k].name
       /\ matched[k].nodes = CarriersOf(matched[k].name)
       /\ matched[k].nodes # <<>>
  /\ \A i \in 1..Len(attributeFilters) :
       CarriersOf(attributeFilters[i].name) # <<>> =>
         \E k \in 1..Len(matched) : matched[k].name = attributeFilters[i].name
  /\ \A k1, k2 \in 1..Len(matched) :
       k1 < k2 =>
         \/ FirstMatch(matched[k1].name) < FirstMatch(matched[k2].name)
         \/ /\ FirstMatch(matched[k1].name) = FirstMatch(matched[k2].name)
            /\ FilterPosition(matched[k1].name) > FilterPosition(matched[k2].name)

\* The callbacks so far ran node filters first, then the attribute filters in
\* the order of the attribute-filter list, each entry's callbacks in order.
DispatchedInListOrder ==
  \A i, j \in 1..Len(calls) :
    i < j =>
      /\ ~(calls[i].phase = "attributes" /\ calls[j].phase = "nodes")
      /\ (calls[i].phase = "attributes" /\ calls[j].phase = "attributes") =>
           \/ FilterPosition(calls[i].name) < FilterPosition(calls[j].name)
           \/ /\ calls[i].name = calls[j].name
              /\ calls[i].ci < calls[j].ci
              /\ calls[j].callback =
                   attributeFilters[FilterPosition(calls[j].name)].callbacks[calls[j].ci]

\* C10: the walk matches attribute filters most recently registered first, so
\* the matched lists of names first seen on one node are created in reverse
\* registration order; the dispatch runs all node filters first and then the
\* attribute-filter entries in list order, callbacks in registration order.
C10_MatchReverseDispatchForward ==
  /\ pc = "invalid" => MatchedMostRecentFirst(state.matchedAttributes)
  /\ DispatchedInListOrder

\* A node carrying two filtered attributes: matched lists created in reverse,
\* dispatched forward, after a node filter.
C10_Witness ==
  /\ pc = "done"
  /\ Len(attributeFilters) >= 2
  /\ Len(state.matchedAttributes) >= 2
  /\ state.matchedAttributes[1].name = attributeFilters[2].name
  /\ state.matchedAttributes[2].name = attributeFilters[1].name
  /\ Len(calls) = 3
  /\ calls[1].phase = "nodes"
  /\ calls[2].phase = "attributes" /\ calls[2].name = attributeFilters[1].name
  /\ calls[3].phase = "attributes" /\ calls[3].name = attributeFilters[2].name

\* The members of seq that are not children of the root of t, in order.
BelowTopLevel(t, seq) ==
  LET IsBelow(n) == \A i \in 1..Len(Children(t, Root)) : Children(t, Root)[i] # n
  IN SelectSeq(seq, IsBelow)

\* The node is in the matched list of every registered node filter of its name
\* and of every registered attribute filter whose attribute it carries.
MatchedLikeWalked(t, st, node) ==
  /\ \A i \in 1..Len(nodeFilters) :
       nodeFilters[i].name = t[node].name =>
         \E k \in 1..Len(st.matchedNodes) :
           /\ st.matchedNodes[k].name = t[node].name
           /\ \E j \in 1..Len(st.matchedNodes[k].nodes) : st.matchedNodes[k].nodes[j] = node
  /\ \A i \in 1..Len(attributeFilters) :
       (\E pair \in t[node].attrs : pair[1] = attributeFilters[i].name) =>
         \E k \in 1..Len(st.matchedAttributes) :
           /\ st.matchedAttributes[k].name = attributeFilters[i].name
           /\ \E j \in 1..Len(st.matchedAttributes[k].nodes) :
                st.matchedAttributes[k].nodes[j] = node

\* The parse call stands between repair and the first filter callback.
RepairDecided == pc = "rootblocks" \/ (pc = "filters" /\ calls = <<>>)

\* C11: repair is invoked only with validation on and a recorded invalid
\* child; without a context it is given every recorded invalid child, with a
\* context exactly those whose parent is not the synthetic root; and every
\* node repair created is in the matched lists before the filters are
\* dispatched, as a walked node of its name and attributes would be.
C11_RepairInvocation ==
  RepairDecided =>
    /\ walked.repair.invoked =>
         /\ settings.validate
         /\ state.invalidChildren # <<>>
         /\ args.context = "" => walked.repair.nodes = state.invalidChildren
         /\ args.context # "" =>
              walked.repair.nodes = BelowTopLevel(walked.tree, state.invalidChildren)
    /\ \A n \in walked.repair.created : MatchedLikeWalked(tree, state, n)

\* Repair ran on a full-document parse and created a node whose name and
\* attribute both have a registered filter; the dispatch has not started.
C11_Witness ==
  /\ pc = "filters" /\ calls = <<>>
  /\ args.context = ""
  /\ walked.repair.invoked
  /\ \E n \in walked.repair.created :
       /\ \E i \in 1..Len(nodeFilters) : nodeFilters[i].name = tree[n].name
       /\ \E i \in 1..Len(attributeFilters) :
            \E pair \in tree[n].attrs : pair[1] = attributeFilters[i].name

\* The position of node in seq, 0 when it is not there.
PositionIn(seq, node) ==
  IF \E i \in 1..Len(seq) : seq[i] = node
  THEN CHOOSE i \in 1..Len(seq) : seq[i] = node
  ELSE 0

\* The root and the nodes below it in document order, in the tree pass 1 left.
SurvivorsOfPass1 == <<Root>> \o Preorder(walked.forward)

\* The nodes pass 2 has post-processed so far are the last survivors of
\* pass 1, taken from the end of their document order backwards.
ReverseOfPass1 ==
  /\ Len(walked.post) <= Len(SurvivorsOfPass1)
  /\ \A k \in 1..Len(walked.post) :
       walked.post[k] = SurvivorsOfPass1[Len(SurvivorsOfPass1) + 1 - k]

\* Before the k-th node of pass 2 come all its descendants and all the nodes
\* after it in the document order of pass 1.
AfterDescendantsAndFollowers(k) ==
  /\ \A d \in SeqRange(Subtree(walked.forward, walked.post[k])) :
       d # walked.post[k] =>
         PositionIn(walked.post, d) # 0 /\ PositionIn(walked.post, d) < k
  /\ \A j \in 1..Len(SurvivorsOfPass1) :
       j > PositionIn(SurvivorsOfPass1, walked.post[k]) =>
         /\ PositionIn(walked.post, SurvivorsOfPass1[j]) # 0
         /\ PositionIn(walked.post, SurvivorsOfPass1[j]) < k

\* The validation walk has started (or is about to).
Pass2Over == pc \in {"walk", "invalid", "rootblocks", "filters", "done"}

\* C12: the list pass 2 works on holds exactly the nodes attached after
\* pass 1, each once, in document order; pass 2 post-processes them in the
\* exact reverse of that order, so a node comes after all its descendants and
\* all nodes following it; and pass 2 has post-processed all of them before
\* the validation walk starts.
C12_Pass2ReverseOfPass1 ==
  /\ pc \in {"postprocess", "walk"} =>
       /\ nodes = SurvivorsOfPass1
       /\ \A i, j \in 1..Len(nodes) : nodes[i] = nodes[j] => i = j
       /\ \A i \in 1..Len(nodes) :
            nodes[i] # Root => walked.forward[nodes[i]].parent # NULL
       /\ ReverseOfPass1
       /\ \A k \in 1..Len(walked.post) : AfterDescendantsAndFollowers(k)
  /\ Pass2Over => walked.forward # <<>> /\ Len(walked.post) = Len(nodes)
  /\ pc \in {"idle", "simplify"} => walked.post = <<>> /\ walked.visited = <<>>
  /\ pc = "postprocess" => walked.visited = <<>> /\ walked.tree = <<>>

\* Pass 1 detached a text node, pass 2 has run over the three nodes left (the
\* root, an element and its child), and the validation walk has followed.
C12_Witness ==
  /\ pc = "invalid"
  /\ Len(walked.processed) > Len(nodes)
  /\ Len(walked.post) = 3
  /\ walked.forward[walked.post[1]].parent = walked.post[2]
  /\ walked.post[3] = Root
  /\ \E n \in SeqRange(walked.processed) :
       walked.forward[n].parent = NULL /\ walked.forward[n].type = TEXT

\* The value of the named attribute in an attribute set, "" when absent.
ValueIn(attrs, name) ==
  IF \E pair \in attrs : pair[1] = name
  THEN (CHOOSE pair \in attrs : pair[1] = name)[2]
  ELSE ""

Present(attrs, name) == \E pair \in attrs : pair[1] = name

\* The element hook has just run on an element whose tag has a schema rule.
HookedElement ==
  /\ pc = "sanitize"
  /\ hook.position # 0
  /\ hook.name \in DOMAIN SchemaElements

\* value is an id this hook call minted, unlike every id minted before it.
FreshId(value) ==
  /\ \E i \in 1..Len(hook.minted) : hook.minted[i] = value
  /\ \A i \in 1..Len(hook.earlier) : hook.earlier[i] # value

\* The attribute has the value the rule gives it: the literal value, or a
\* fresh id where the rule has the placeholder.
HasRuleValue(attr) ==
  IF attr.value = UidPlaceholder THEN FreshId(ValueIn(hook.now, attr.name))
  ELSE ValueIn(hook.now, attr.name) = attr.value

\* The native tree is the earlier one without the element at position i, its
\* children now children of its former parent, every other node as it was.
UnwrappedAt(earlier, later, i) ==
  /\ Len(later) = Len(earlier) - 1
  /\ \A j \in 1..Len(later) :
       LET old == IF j < i THEN earlier[j] ELSE earlier[j + 1]
       IN /\ later[j].name = old.name
          /\ later[j].type = old.type
          /\ later[j].attrs = old.attrs
          /\ later[j].value = old.value
          /\ later[j].parent = IF old.parent = i THEN earlier[i].parent
                               ELSE IF old.parent > i THEN old.parent - 1
                               ELSE old.parent

\* C13: after the element hook has run on an element whose tag has a schema
\* rule, every forced attribute has the rule's value whatever it had before,
\* every default attribute has its original value if it had one and the
\* rule's value otherwise, every placeholder has become an id minted by this
\* call that no earlier call on this parser instance minted (nor this call
\* twice), and the element is unwrapped, its children kept, when the rule has
\* required attributes and the element none of them, or the rule says to
\* remove attribute-less elements and the element has no attribute.
C13_ElementHook ==
  HookedElement =>
    LET rule == AttributeRulesOf(hook.name)
    IN /\ \A i \in 1..Len(rule.attributesForced) : HasRuleValue(rule.attributesForced[i])
       /\ \A i \in 1..Len(rule.attributesDefault) :
            IF Present(hook.was, rule.attributesDefault[i].name)
            THEN ValueIn(hook.now, rule.attributesDefault[i].name)
                   = ValueIn(hook.was, rule.attributesDefault[i].name)
            ELSE HasRuleValue(rule.attributesDefault[i])
       /\ \A i, j \in 1..Len(hook.minted) : hook.minted[i] = hook.minted[j] => i = j
       /\ \A i \in 1..Len(hook.minted) : FreshId(hook.minted[i])
       /\ ( \/ /\ rule.attributesRequired # <<>>
               /\ \A i \in 1..Len(rule.attributesRequired) :
                    ~Present(hook.now, rule.attributesRequired[i])
            \/ rule.removeEmptyAttrs /\ hook.now = {} )
            => /\ hook.unwrapped
               /\ UnwrappedAt(before, element, hook.position)
       /\ ~hook.unwrapped =>
            /\ Len(element) = Len(before)
            /\ element[hook.position].attrs = hook.now

\* The second parse on the instance: the hook has run on an img that came
\* with class and alt, overwriting the one, keeping the other and minting two
\* ids that the first parse had not minted; an element was unwrapped before it.
C13_Witness ==
  /\ HookedElement
  /\ parses = 1 /\ hook.earlier # <<>>
  /\ hook.name = "img"
  /\ ValueIn(hook.was, "class") = "c" /\ ValueIn(hook.now, "class") = "f"
  /\ ValueIn(hook.was, "alt") = "a" /\ ValueIn(hook.now, "alt") = "a"
  /\ Len(hook.minted) = 2
  /\ Len(element) < Len(source)

\* Every callback registered for the name of a matched list has been invoked
\* on it.
DispatchedAll(matched, filters, phase) ==
  \A k \in 1..Len(matched) :
    \A i \in 1..Len(filters) :
      filters[i].name = matched[k].name =>
        \A c \in 1..Len(filters[i].callbacks) :
          \E j \in 1..Len(calls) :
            /\ calls[j].phase = phase
            /\ calls[j].name = matched[k].name
            /\ calls[j].callback = filters[i].callbacks[c]

\* C14: with validation disabled the validation walk leaves the tree as it
\* was (no element without a rule unwrapped, no element renamed), repair is
\* not invoked and does not touch the tree even when invalid children were
\* recorded, args.invalid is never set, and still every node of the tree is
\* matched against the registered filters and every callback registered for a
\* matched name is invoked.
C14_ValidationDisabled ==
  ~settings.validate =>
    /\ pc = "invalid" =>
         /\ tree = before
         /\ walked.unwrapped = <<>>
         /\ \A n \in SeqRange(Preorder(tree)) : MatchedLikeWalked(tree, state, n)
    /\ pc = "rootblocks" => tree = before /\ ~walked.repair.invoked
    /\ ~walked.repair.invoked
    /\ ~args.invalid
    /\ pc = "done" =>
         /\ DispatchedAll(state.matchedNodes, nodeFilters, "nodes")
         /\ DispatchedAll(state.matchedAttributes, attributeFilters, "attributes")

\* A contextual parse without validation that has returned: its tree still
\* holds an element without a rule or one with an output name, under its own
\* name; the walk recorded a top-level invalid child; a node filter and an
\* attribute filter were invoked.
C14_Witness ==
  /\ ~settings.validate
  /\ pc = "done"
  /\ args.context # ""
  /\ \E n \in SeqRange(Preorder(walked.tree)) : walked.tree[n].name \in {"foo", "b"}
  /\ \E i \in 1..Len(state.invalidChildren) :
       walked.tree[state.invalidChildren[i]].parent = Root
  /\ \E j \in 1..Len(calls) : calls[j].phase = "nodes"
  /\ \E j \in 1..Len(calls) : calls[j].phase = "attributes"

\* The attached text nodes of t outside whitespace-preserving elements.
CollapsibleTexts(t) ==
  {n \in SeqRange(Preorder(t)) : t[n].type = TEXT /\ ~InWhiteSpaceElement(t, n)}

\* C15: when the filter callbacks are about to run, no text node attached to
\* the tree outside whitespace-preserving elements has an empty value: a text
\* node emptied by whitespace collapsing or trimming, the trim of a new root
\* block's first and last text child included, has been detached.
C15_NoEmptyText ==
  (pc = "filters" /\ calls = <<>>) =>
    \A n \in CollapsibleTexts(tree) : tree[n].value # <<>>

\* How often node occurs in seq.
Occurrences(seq, node) == Cardinality({i \in 1..Len(seq) : seq[i] = node})

\* A walk over tree t whose log is seq: no node is in the log twice, so the
\* log is no longer than the tree has nodes, and every node attached to the
\* tree the walk left is in it once.
WalkedOnce(seq, t, attached) ==
  /\ \A n \in DOMAIN t : Occurrences(seq, n) <= 1
  /\ Len(seq) <= Len(t)
  /\ \A n \in SeqRange(attached) : Occurrences(seq, n) = 1

\* C16: the forward walk of the normalizer and the validation walk come to
\* an end on every input tree although each goes back to the node visited
\* before after a node was removed or unwrapped: neither processes a node
\* twice, so each takes at most as many steps as the tree has nodes, and
\* each visits every node that remains attached exactly once.
C16_WalksTerminate ==
  /\ (pc = "postprocess" /\ idx = Len(nodes)) =>
       WalkedOnce(walked.processed, tree, <<Root>> \o Preorder(tree))
  /\ pc = "invalid" =>
       /\ WalkedOnce(walked.visited \o walked.unwrapped, tree, Preorder(tree))
       /\ \A n \in SeqRange(Preorder(tree)) : Occurrences(walked.visited, n) = 1
       /\ \A n \in SeqRange(walked.unwrapped) : tree[n].parent = NULL

\* Both walks went back: the forward walk after it unwrapped an element with
\* a child, the validation walk after it unwrapped an element without a rule
\* that had a child, and nodes followed both.
C16_Witness ==
  /\ pc = "invalid"
  /\ \E n \in SeqRange(walked.processed) :
       /\ walked.forward[n].parent = NULL
       /\ walked.forward[n].type = ELEMENT
       /\ n + 1 \in SeqRange(nodes)
       /\ source[n].parent = n - 1
  /\ \E n \in SeqRange(walked.unwrapped) :
       /\ before[n].firstChild # NULL
       /\ before[before[n].firstChild].type = TEXT
       /\ before[n].firstChild \in SeqRange(walked.visited)

====
